---- MODULE Spec2Model ----
(***************************************************************************)
(* A model of the goannotate resolution engine (package locate).           *)
(*                                                                         *)
(* Strings are sequences of one-character strings so that the spec parser, *)
(* path.Join, regular-expression matching and fully qualified names are    *)
(* computed the way the code computes them.                                *)
(***************************************************************************)
EXTENDS Integers, Sequences, FiniteSets, TLC

(***************************************************************************)
(* Bounds of the model.                                                    *)
(***************************************************************************)
\* The number of specs, packages and comment expressions registered in all.
MaxReg == 2
\* The number of calls of Do on one engine.
MaxDo == 1
\* The number of calls of Do on one engine when Do is called again.
MaxDoAgain == 2
\* The number of ordered walks recorded after a Do.
MaxWalks == 2

(***************************************************************************)
(* Strings.                                                                *)
(***************************************************************************)
Range(s) == {s[i] : i \in DOMAIN s}

\* The byte order of the characters the model uses (ASCII).
CharOrder ==
    <<"$", "(", "*", ".", "/", "1", "2", "3", "A", "B", "C", "E", "F", "M",
      "O", "P", "S", "T", "V", "X", "c", "d", "e", "g", "h", "i", "j", "m",
      "n", "o", "p", "t", "x">>

CharRank(c) == CHOOSE i \in DOMAIN CharOrder : CharOrder[i] = c

\* Go's < on strings: lexicographic by byte.
RECURSIVE StrLess(_, _)
StrLess(a, b) ==
    IF b = <<>> THEN FALSE
    ELSE IF a = <<>> THEN TRUE
    ELSE IF a[1] = b[1] THEN StrLess(Tail(a), Tail(b))
    ELSE CharRank(a[1]) < CharRank(b[1])

\* strings.LastIndex(s, c), 0-based; -1 when c does not occur.
LastIndex(s, c) ==
    IF c \in Range(s)
    THEN (CHOOSE i \in DOMAIN s :
              s[i] = c /\ \A j \in DOMAIN s : s[j] = c => j <= i) - 1
    ELSE -1

\* strings.Index(s, c), 0-based; -1 when c does not occur.
Index(s, c) ==
    IF c \in Range(s)
    THEN (CHOOSE i \in DOMAIN s :
              s[i] = c /\ \A j \in DOMAIN s : s[j] = c => i <= j) - 1
    ELSE -1

\* s[:n] and s[n:] of Go, n 0-based.
Prefix(s, n) == SubSeq(s, 1, n)
Suffix(s, n) == SubSeq(s, n + 1, Len(s))

\* The elements of a path between its slashes.
RECURSIVE SplitSlash(_)
SplitSlash(s) ==
    LET i == Index(s, "/")
    IN  IF i < 0 THEN <<s>>
        ELSE <<Prefix(s, i)>> \o SplitSlash(Suffix(s, i + 1))

RECURSIVE JoinSlash(_)
JoinSlash(elems) ==
    IF elems = <<>> THEN <<>>
    ELSE IF Len(elems) = 1 THEN elems[1]
    ELSE elems[1] \o <<"/">> \o JoinSlash(Tail(elems))

\* path.Clean's pass over the elements: "" and "." are dropped, ".." removes
\* the element before it.
RECURSIVE CleanElems(_, _, _)
CleanElems(elems, stack, rooted) ==
    IF elems = <<>> THEN stack
    ELSE LET e == elems[1]
             rest == Tail(elems)
         IN  IF e = <<>> \/ e = <<".">> THEN CleanElems(rest, stack, rooted)
             ELSE IF e = <<".", ".">>
             THEN IF stack # <<>> /\ stack[Len(stack)] # <<".", ".">>
                  THEN CleanElems(rest, Prefix(stack, Len(stack) - 1), rooted)
                  ELSE IF rooted THEN CleanElems(rest, stack, rooted)
                  ELSE CleanElems(rest, Append(stack, e), rooted)
             ELSE CleanElems(rest, Append(stack, e), rooted)

PathClean(p) ==
    IF p = <<>> THEN <<".">>
    ELSE LET rooted == p[1] = "/"
             body == JoinSlash(CleanElems(SplitSlash(p), <<>>, rooted))
         IN  IF rooted THEN <<"/">> \o body
             ELSE IF body = <<>> THEN <<".">> ELSE body

\* path.Join of two elements: empty elements are ignored, the result is
\* cleaned, and joining nothing gives the empty string.
PathJoin(a, b) ==
    IF a = <<>> /\ b = <<>> THEN <<>>
    ELSE IF a = <<>> THEN PathClean(b)
    ELSE IF b = <<>> THEN PathClean(a)
    ELSE PathClean(a \o <<"/">> \o b)

MatchAll == <<".", "*">>

ParseNoSlash(typ) ==
    LET idx == Index(typ, ".")
    IN  IF idx >= 0
        THEN [path |-> Prefix(typ, idx), expr |-> Suffix(typ, idx + 1)]
        ELSE [path |-> typ, expr |-> MatchAll]

\* A parser that splits the part after the last slash, or a spec without
\* a slash, at its last dot.
parseSpecAtLastDot(typ) ==
    LET idx == LastIndex(typ, "/")
        dir == Prefix(typ, IF idx < 0 THEN 0 ELSE idx)
        tail == Suffix(typ, idx + 1)
        dot == LastIndex(tail, ".")
    IN  IF dot < 0
        THEN [path |-> IF idx < 0 THEN typ ELSE PathJoin(dir, tail),
              expr |-> MatchAll]
        ELSE [path |-> IF idx < 0 THEN Prefix(tail, dot)
                       ELSE PathJoin(dir, Prefix(tail, dot)),
              expr |-> Suffix(tail, dot + 1)]

\* parseSpecAndRegexp: the package path and the expression of a spec.
parseSpecAndRegexp(typ) ==
    LET idx == LastIndex(typ, "/")
    IN  IF idx < 0 THEN ParseNoSlash(typ)
        ELSE LET dir == Prefix(typ, idx)
                 tail == Suffix(typ, idx + 1)
                 dot == Index(tail, ".")
             IN  IF dot < 0
                 THEN [path |-> PathJoin(dir, tail), expr |-> MatchAll]
                 ELSE [path |-> PathJoin(dir, Prefix(tail, dot)),
                       expr |-> Suffix(tail, dot + 1)]

(***************************************************************************)
(* Regular expressions, for the syntax the model's patterns use: literal   *)
(* characters, '.', a postfix '*', '$', and '(' (which is never closed:    *)
(* the alphabet has no ')').                                               *)
(***************************************************************************)
\* regexp.Compile fails on an unclosed '(' and on a '*' with nothing to repeat.
RegexpCompiles(expr) ==
    /\ "(" \notin Range(expr)
    /\ expr # <<>> => expr[1] # "*"

RECURSIVE MatchAt(_, _)
MatchAt(re, s) ==
    IF re = <<>> THEN TRUE
    ELSE IF Len(re) >= 2 /\ re[2] = "*"
    THEN \/ MatchAt(Tail(Tail(re)), s)
         \/ /\ s # <<>>
            /\ (re[1] = "." \/ re[1] = s[1])
            /\ MatchAt(re, Tail(s))
    ELSE IF re[1] = "$" THEN s = <<>> /\ MatchAt(Tail(re), s)
    ELSE /\ s # <<>>
         /\ (re[1] = "." \/ re[1] = s[1])
         /\ MatchAt(Tail(re), Tail(s))

\* (*Regexp).MatchString: the expression matches anywhere in s.
MatchString(re, s) == \E i \in 0..Len(s) : MatchAt(re, Suffix(s, i))

NoError == {}

ErrNoPackage(typ) == [kind |-> "no package name", what |-> typ]
ErrRegexp(expr) == [kind |-> "failed to compile regexp", what |-> expr]

\* getPathAndRegexp: the path and the compiled expression, or the error.
getPathAndRegexp(typ) ==
    LET p == parseSpecAndRegexp(typ)
    IN  IF p.path = <<>>
        THEN [path |-> <<>>, re |-> <<>>, err |-> {ErrNoPackage(typ)}]
        ELSE IF ~RegexpCompiles(p.expr)
        THEN [path |-> <<>>, re |-> <<>>, err |-> {ErrRegexp(p.expr)}]
        ELSE [path |-> p.path, re |-> p.expr, err |-> NoError]

\* dedup: the inputs without repeats and without empty strings, in order.
RECURSIVE DedupFrom(_, _)
DedupFrom(inputs, seen) ==
    IF inputs = <<>> THEN <<>>
    ELSE IF inputs[1] \in seen \/ inputs[1] = <<>>
    THEN DedupFrom(Tail(inputs), seen)
    ELSE <<inputs[1]>> \o DedupFrom(Tail(inputs), seen \cup {inputs[1]})

dedup(inputs) == DedupFrom(inputs, {})

packagesFromSpecs(specs) ==
    [i \in DOMAIN specs |-> parseSpecAndRegexp(specs[i]).path]

packagesToLoad(ifcs, fns, impls) ==
    dedup(packagesFromSpecs(ifcs) \o packagesFromSpecs(fns) \o impls)

(***************************************************************************)
(* The source tree the engine is run on: packages, their files, the        *)
(* identifiers they define (types.Info.Defs) and their comment groups.     *)
(*   t/d  interfaces A{M1,M2}, h{M1x}, B{M3}, C{A;B}; a struct S with a    *)
(*        field F of type C; a variable V of type B; functions F1, F2      *)
(*   t/e  interfaces E1{E1m}, e3{E3m}, E{E1; e3; p.P; Em}; a struct SE     *)
(*        that embeds E1                                                   *)
(*   t/p  interfaces P{Pm} and XP{Xm}; a type O with method M1 on the      *)
(*        pointer receiver; a struct with a field G of the unnamed         *)
(*        interface type interface{M3}                                     *)
(*   t/i  types T1 with methods M1, M2 and T12 with methods M1, M2, M3,    *)
(*        all on the pointer receiver                                      *)
(*   t/m  a directory that does not type check                             *)
(*   n    a path that names no package                                     *)
(*   t/w  a directory that holds the files of two packages                 *)
(***************************************************************************)
PD == <<"t", "/", "d">>
PE == <<"t", "/", "e">>
PP == <<"t", "/", "p">>
PI == <<"t", "/", "i">>
PM == <<"t", "/", "m">>
PN == <<"n">>
PW == <<"t", "/", "w">>
PC == <<"t", "/", "c">>

NoId == ""
NoPath == <<>>

TypeDef(pkg, name, file, off, under, methods, embeds) ==
    [pkg |-> pkg, name |-> name, kind |-> "type", file |-> file, off |-> off,
     under |-> under, methods |-> methods, embeds |-> embeds,
     sig |-> "", recv |-> NoId, ptr |-> FALSE, body |-> FALSE, vtype |-> NoId]

\* An interface type that has no name (a field's type).
AnonIfc(pkg, methods) ==
    [pkg |-> pkg, name |-> <<>>, kind |-> "anon", file |-> <<>>, off |-> 0,
     under |-> "interface", methods |-> methods, embeds |-> <<>>,
     sig |-> "", recv |-> NoId, ptr |-> FALSE, body |-> FALSE, vtype |-> NoId]

FuncDef(pkg, name, file, off, sig, recv, ptr, body) ==
    [pkg |-> pkg, name |-> name, kind |-> "func", file |-> file, off |-> off,
     under |-> "signature", methods |-> {}, embeds |-> <<>>,
     sig |-> sig, recv |-> recv, ptr |-> ptr, body |-> body, vtype |-> NoId]

\* A variable or a struct field of a named type.
VarDef(pkg, name, file, off, vtype) ==
    [pkg |-> pkg, name |-> name, kind |-> "var", file |-> file, off |-> off,
     under |-> "", methods |-> {}, embeds |-> <<>>,
     sig |-> "", recv |-> NoId, ptr |-> FALSE, body |-> FALSE, vtype |-> vtype]

FD1 == <<"d", "1">>
FD2 == <<"d", "2">>
FD3 == <<"d", "3">>
FE1 == <<"e", "1">>
FP1 == <<"p", "1">>
FI1 == <<"i", "1">>
FC1 == <<"c", "1">>

World ==
    [id \in {"d.A", "d.h", "d.B", "d.C", "d.S", "d.S.F", "d.V",
             "d.A.M1", "d.A.M2", "d.h.M1", "d.B.M3",
             "d.F1", "d.F2",
             "e.E1", "e.e3", "e.E", "e.SE", "e.SE.E1",
             "e.E1.E1m", "e.e3.E3m", "e.E.Em",
             "p.P", "p.XP", "p.P.Pm", "p.XP.Xm",
             "p.O", "p.O.M1", "p.anon", "p.G.M3",
             "i.T1", "i.T1.M1", "i.T1.M2",
             "i.T12", "i.T12.M1", "i.T12.M2", "i.T12.M3",
             "e.T", "c.S", "c.S.M1", "c.S.M2"} |->
        CASE id = "d.A" -> TypeDef(PD, <<"A">>, FD1, 10, "interface", {"M1", "M2"}, <<>>)
          [] id = "d.h" -> TypeDef(PD, <<"h">>, FD1, 20, "interface", {"M1x"}, <<>>)
          [] id = "d.B" -> TypeDef(PD, <<"B">>, FD1, 30, "interface", {"M3"}, <<>>)
          [] id = "d.C" -> TypeDef(PD, <<"C">>, FD1, 40, "interface", {}, <<"d.A", "d.B">>)
          [] id = "d.S" -> TypeDef(PD, <<"S">>, FD1, 50, "struct", {}, <<>>)
          [] id = "d.S.F" -> VarDef(PD, <<"F">>, FD1, 52, "d.C")
          [] id = "d.V" -> VarDef(PD, <<"V">>, FD1, 60, "d.B")
          [] id = "d.A.M1" -> FuncDef(PD, <<"M", "1">>, FD1, 12, "M1", "d.A", FALSE, FALSE)
          [] id = "d.A.M2" -> FuncDef(PD, <<"M", "2">>, FD1, 14, "M2", "d.A", FALSE, FALSE)
          [] id = "d.h.M1" -> FuncDef(PD, <<"M", "1">>, FD1, 22, "M1x", "d.h", FALSE, FALSE)
          [] id = "d.B.M3" -> FuncDef(PD, <<"M", "3">>, FD1, 32, "M3", "d.B", FALSE, FALSE)
          [] id = "d.F1" -> FuncDef(PD, <<"F", "1">>, FD2, 10, "F1", NoId, FALSE, TRUE)
          [] id = "d.F2" -> FuncDef(PD, <<"F", "2">>, FD3, 5, "F2", NoId, FALSE, TRUE)
          [] id = "e.E1" -> TypeDef(PE, <<"E", "1">>, FE1, 10, "interface", {"E1m"}, <<>>)
          [] id = "e.e3" -> TypeDef(PE, <<"e", "3">>, FE1, 20, "interface", {"E3m"}, <<>>)
          [] id = "e.E" -> TypeDef(PE, <<"E">>, FE1, 30, "interface", {"Em"}, <<"e.E1", "e.e3", "p.P">>)
          [] id = "e.SE" -> TypeDef(PE, <<"S", "E">>, FE1, 40, "struct", {}, <<>>)
          [] id = "e.SE.E1" -> VarDef(PE, <<"E", "1">>, FE1, 42, "e.E1")
          [] id = "e.E1.E1m" -> FuncDef(PE, <<"E", "1", "m">>, FE1, 12, "E1m", "e.E1", FALSE, FALSE)
          [] id = "e.e3.E3m" -> FuncDef(PE, <<"E", "3", "m">>, FE1, 22, "E3m", "e.e3", FALSE, FALSE)
          [] id = "e.E.Em" -> FuncDef(PE, <<"E", "m">>, FE1, 32, "Em", "e.E", FALSE, FALSE)
          [] id = "p.P" -> TypeDef(PP, <<"P">>, FP1, 10, "interface", {"Pm"}, <<>>)
          [] id = "p.XP" -> TypeDef(PP, <<"X", "P">>, FP1, 20, "interface", {"Xm"}, <<>>)
          [] id = "p.P.Pm" -> FuncDef(PP, <<"P", "m">>, FP1, 12, "Pm", "p.P", FALSE, FALSE)
          [] id = "p.XP.Xm" -> FuncDef(PP, <<"X", "m">>, FP1, 22, "Xm", "p.XP", FALSE, FALSE)
          [] id = "i.T1" -> TypeDef(PI, <<"T", "1">>, FI1, 10, "struct", {}, <<>>)
          [] id = "p.O" -> TypeDef(PP, <<"O">>, FP1, 40, "struct", {}, <<>>)
          [] id = "p.O.M1" -> FuncDef(PP, <<"M", "1">>, FP1, 50, "M1", "p.O", TRUE, TRUE)
          [] id = "p.anon" -> AnonIfc(PP, {"M3"})
          [] id = "p.G.M3" -> FuncDef(PP, <<"M", "3">>, FP1, 65, "M3", "p.anon", FALSE, FALSE)
          [] id = "i.T1.M1" -> FuncDef(PI, <<"M", "1">>, FI1, 20, "M1", "i.T1", TRUE, TRUE)
          [] id = "i.T1.M2" -> FuncDef(PI, <<"M", "2">>, FI1, 30, "M2", "i.T1", TRUE, TRUE)
          [] id = "i.T12" -> TypeDef(PI, <<"T", "1", "2">>, FI1, 60, "struct", {}, <<>>)
          [] id = "i.T12.M1" -> FuncDef(PI, <<"M", "1">>, FI1, 70, "M1", "i.T12", TRUE, TRUE)
          [] id = "i.T12.M2" -> FuncDef(PI, <<"M", "2">>, FI1, 80, "M2", "i.T12", TRUE, TRUE)
          [] id = "e.T" -> TypeDef(PE, <<"T">>, FE1, 50, "interface", {}, <<"e.E">>)
          [] id = "c.S" -> TypeDef(PC, <<"S">>, FC1, 10, "struct", {}, <<>>)
          [] id = "c.S.M1" -> FuncDef(PC, <<"M", "1">>, FC1, 20, "M1", "c.S", FALSE, TRUE)
          [] id = "c.S.M2" -> FuncDef(PC, <<"M", "2">>, FC1, 30, "M2", "c.S", TRUE, TRUE)
          [] OTHER -> FuncDef(PI, <<"M", "3">>, FI1, 90, "M3", "i.T12", TRUE, TRUE)]

Ids == DOMAIN World

\* The packages that load, and their compiled files.
GoodPaths == {PD, PE, PP, PI, PC}

PkgFiles(path) ==
    CASE path = PD -> {FD1, FD2, FD3}
      [] path = PE -> {FE1}
      [] path = PP -> {FP1}
      [] path = PI -> {FI1}
      [] path = PC -> {FC1}
      [] OTHER -> {}

\* What packages.Load reports for a path.
LoadOutcome(path) ==
    IF path \in GoodPaths THEN "ok"
    ELSE IF path \in {PM, PW} THEN "illtyped"
    ELSE "notfound"

\* types.Info.Defs of a package: the identifiers it defines.
Defs(path) == {id \in Ids : World[id].pkg = path /\ World[id].kind # "anon"}

\* The comment groups of a file: offset and text.
CommentGroups(file) ==
    CASE file = FD1 -> {[off |-> 5, text |-> <<"x", "g">>],
                        [off |-> 35, text |-> <<"g">>]}
      [] file = FE1 -> {[off |-> 25, text |-> <<"x">>]}
      [] OTHER -> {}

UpperCase == {"A", "B", "C", "E", "F", "M", "O", "P", "S", "T", "V", "X"}

\* ast.Ident.IsExported and types.Object.Exported.
IsExported(name) == name # <<>> /\ name[1] \in UpperCase

\* types.Object.Type of an identifier: a named type, or NoId for a signature.
ObjType(id) ==
    CASE World[id].kind = "type" -> id
      [] World[id].kind = "var" -> World[id].vtype
      [] OTHER -> NoId

\* isInterfaceType: the interface, when typ is a named interface type
\* defined in the package at path.
isInterfaceType(path, typ) ==
    IF typ = NoId THEN NoId
    ELSE IF World[typ].under # "interface" THEN NoId
    ELSE IF World[typ].kind = "type" /\ World[typ].pkg = path THEN typ
    ELSE NoId

\* The method set of an interface type, embedded interfaces included
\* (types.Interface after completion).
RECURSIVE IfcMethodSet(_)
IfcMethodSet(id) ==
    World[id].methods \cup
        UNION {IfcMethodSet(World[id].embeds[i]) : i \in DOMAIN World[id].embeds}

\* The method set of a receiver type: of T the methods declared on T, of *T
\* those declared on T or *T; of an interface its own.
MethodSet(typ, ptr) ==
    IF World[typ].under = "interface" THEN IfcMethodSet(typ)
    ELSE {World[m].sig : m \in {f \in Ids : /\ World[f].kind = "func"
                                             /\ World[f].recv = typ
                                             /\ (ptr \/ ~World[f].ptr)}}

\* A comparison against the methods an interface declares itself, those of
\* its embedded interfaces left out.
ImplementsDeclared(typ, ptr, ifc) == World[ifc].methods \subseteq MethodSet(typ, ptr)

\* types.Implements(recv, ifc).
Implements(typ, ptr, ifc) == IfcMethodSet(ifc) \subseteq MethodSet(typ, ptr)

\* path + "." + name
Fqn(path, name) == path \o <<".">> \o name

\* types.Func.FullName
FullName(id) ==
    LET d == World[id]
    IN  IF d.recv = NoId THEN Fqn(d.pkg, d.name)
        ELSE IF World[d.recv].kind = "anon"
        THEN <<"(", "i", ")", ".">> \o d.name
        ELSE <<"(">> \o (IF d.ptr THEN <<"*">> ELSE <<>>)
                 \o Fqn(d.pkg, World[d.recv].name) \o <<")", ".">> \o d.name

(***************************************************************************)
(* The engine: locate.T with its loader, and the goroutines of Do.         *)
(***************************************************************************)
VARIABLES
    options,                 \* options: concurrency, ignoreMissingFunctionsEtc
    interfacePackages,       \* T.interfacePackages
    functionPackages,        \* T.functionPackages
    implementationPackages,  \* T.implementationPackages
    commentExpressions,      \* T.commentExpressions
    ldPackages,              \* loader.packages: path -> the load it came from
    ldFiles,                 \* loader.files: filename -> package and load
    interfaces,              \* T.interfaces: fqn -> interfaceDesc
    functions,               \* T.functions: full name -> funcDesc
    comments,                \* T.comments: expression -> sequence of commentDesc
    dirty,                   \* T.dirty: filename -> HitMask
    doPc,                    \* where the caller's goroutine is in Do
    doIdx,                   \* the loop index of the caller's goroutine
    doNo,                    \* the number of Do calls made
    doArgs,                  \* Do's locals: the deduplicated lists
    doRet,                   \* the error the last Do returned (a set; {} is nil)
    doLoaded,                \* the paths the current or last Do handed to packages.Load
    nLoads,                  \* path -> how often packages.Load parsed and checked it
    groups,                  \* errgroup state: errors, cancelled context, tasks in flight
    coord,                   \* the goroutines of Do's group: fn, impl, cmt
    tasks,                   \* the goroutines started by the dispatch loops
    ctxCancelled,            \* the context passed to Do is cancelled
    panicked,                \* a goroutine panicked: the process is gone
    walked,                  \* the ordered walks made since the last other call
    regCalls,                \* the number of registration calls made
    \* The engine with the staged cache (locate.go).
    built,                   \* T.built: the paths located
    parsed,                  \* T.parsed: path -> the parse its syntax came from
    checked,                 \* T.checked: path -> the parse its types.Info is of
    files,                   \* T.files: filename -> the parse its syntax came from
    interfaceDecl,           \* T.interfaces and T.interfaceDecl, by fqn
    fnDecl,                  \* T.functions and T.fnDecl, by full name
    staged,                  \* the goroutines of the running Add call
    addCall,                 \* the Add call: its number, whether the caller
                             \* is in group.Wait, and what it returned
    fset,                    \* T.fset: the number of ParseDir calls whose
                             \* files the shared file set holds
    dirtyFiles,              \* T.dirty: the filenames marked
    parses,                  \* path -> how often parser.ParseDir ran on it
    checks,                  \* path -> how often types.Config.Check ran on it
    \* The locks.
    locks,                   \* T.mu and the loader's mutex: the holder of each
    running,                 \* goroutine -> the operations it has left
    \* The spec parser run on its own.
    parseTyp,                \* the argument typ of parseSpecAndRegexp
    parseRet                 \* what the call returned, NoParse before it

vars ==
    <<options, interfacePackages, functionPackages, implementationPackages,
      commentExpressions, ldPackages, ldFiles, interfaces, functions, comments,
      dirty, doPc, doIdx, doNo, doArgs, doRet, doLoaded, nLoads, groups, coord,
      tasks, ctxCancelled, panicked, walked, regCalls, built, parsed, checked,
      files, interfaceDecl, fnDecl, staged, addCall, fset, dirtyFiles, parses,
      checks, locks, running, parseTyp, parseRet>>

regVars ==
    <<interfacePackages, functionPackages, implementationPackages,
      commentExpressions>>
loaderVars == <<ldPackages, ldFiles, nLoads, doLoaded>>
resultVars == <<interfaces, functions, comments, dirty>>
stagedVars ==
    <<built, parsed, checked, files, interfaceDecl, fnDecl, staged, addCall,
      fset, dirtyFiles, parses, checks>>
lockVars == <<locks, running>>
parserVars == <<parseTyp, parseRet>>
engineVars ==
    <<options, regVars, loaderVars, resultVars, doPc, doIdx, doNo, doArgs, doRet,
      groups, coord, tasks, ctxCancelled, panicked, walked, regCalls>>

EmptyMap == [x \in {} |-> x]

\* A store that keeps nothing but the entry it is called with.
PutAlone(m, k, v) == [x \in {k} |-> v]

\* m with key k set to v.
Put(m, k, v) == [x \in DOMAIN m \cup {k} |-> IF x = k THEN v ELSE m[x]]

\* HitMask bits.
HasComment == 1
HasFunction == 2
HasInterface == 4

HasBit(mask, bit) == (mask \div bit) % 2 = 1
OrBit(mask, bit) == IF HasBit(mask, bit) THEN mask ELSE mask + bit
MaskOf(d, filename) == IF filename \in DOMAIN d THEN d[filename] ELSE 0
SetDirty(d, filename, bit) == Put(d, filename, OrBit(MaskOf(d, filename), bit))

EmptyPos == [file |-> <<>>, off |-> 0]

\* The values of Concurrency the model is run with.
Concurrencies == {0, 1}

\* The arguments of the registration calls a caller makes.
IfcCalls ==
    {<<PD>>,                                 \* t/d: every interface of t/d
     <<PD \o <<".", "x">>>>,                 \* t/d.x: matches nothing
     <<PD, PD \o <<".", "(">>>>,             \* t/d, then t/d.( that does not compile
     <<PE \o <<".", "E", "$">>>>}            \* t/e.E$: E embeds t/p.P
FnCalls ==
    {<<PD>>,                                 \* t/d: F1 and F2
     <<PD \o <<".", "x">>>>,                 \* t/d.x: matches nothing
     <<PD, PD \o <<".", "(">>>>}             \* t/d, then t/d.( that does not compile
PkgCalls == {<<PI>>, <<PP>>, <<PM, PN>>}
CommentCalls == {<<<<"x">>, <<"g">>>>, <<<<"(">>>>}

ErrCanceled == [kind |-> "context canceled", what |-> <<>>]
ErrFind(path) == [kind |-> "failed to find", what |-> path]
ErrTypeCheck(path) == [kind |-> "failed to type check", what |-> path]
ErrLookup(kind, path) ==
    [kind |-> CASE kind = "ifc" -> "locating interfaces: failed to lookup"
                [] kind = "fn" -> "locating functions: failed to lookup"
                [] OTHER -> "locating interface implementations: failed to lookup",
     what |-> path]
ErrNoneFound(kind, path, re) ==
    [kind |-> IF kind = "ifc" THEN "failed to find any exported interfaces"
              ELSE "failed to find any exported functions",
     what |-> <<path, re>>]
ErrParseRegexp(expr) == [kind |-> "error parsing regexp", what |-> expr]

GroupIds == {"ifc", "top", "fn", "impl"}
NewGroup == [errs |-> {}, cancelled |-> FALSE, running |-> 0]

\* The context a group's tasks are started with is done: the group cancelled
\* it, or the context it was derived from is done.
CtxDone(g) ==
    \/ groups[g].cancelled
    \/ ctxCancelled
    \/ g \in {"fn", "impl"} /\ groups["top"].cancelled

NoArgs == [ifcs |-> <<>>, fns |-> <<>>, pkgs |-> <<>>, cmts |-> <<>>]

CoordOff == [pc |-> "off", idx |-> 0, files |-> <<>>, ctodo |-> {},
             cur |-> [off |-> 0, text |-> <<>>], ridx |-> 0]

\* parseSpecAndRegexp has not returned.
NoParse == [path |-> <<"?">>, expr |-> <<"?">>]

\* The engine after New.
InitEngine ==
    /\ options \in [concurrency : Concurrencies, ignoreMissing : BOOLEAN]
    /\ interfacePackages = <<>>
    /\ functionPackages = <<>>
    /\ implementationPackages = <<>>
    /\ commentExpressions = <<>>
    /\ ldPackages = EmptyMap
    /\ ldFiles = EmptyMap
    /\ interfaces = EmptyMap
    /\ functions = EmptyMap
    /\ comments = EmptyMap
    /\ dirty = EmptyMap
    /\ doPc = "idle"
    /\ doIdx = 0
    /\ doNo = 0
    /\ doArgs = NoArgs
    /\ doRet = {}
    /\ doLoaded = {}
    /\ nLoads = EmptyMap
    /\ groups = [g \in GroupIds |-> NewGroup]
    /\ coord = [c \in {"fn", "impl", "cmt"} |-> CoordOff]
    /\ tasks = EmptyMap
    /\ ctxCancelled = FALSE
    /\ panicked = FALSE
    /\ walked = <<>>
    /\ regCalls = 0
    /\ built = {}
    /\ parsed = EmptyMap
    /\ checked = EmptyMap
    /\ files = EmptyMap
    /\ interfaceDecl = EmptyMap
    /\ fnDecl = EmptyMap
    /\ staged = EmptyMap
    /\ addCall = [n |-> 0, waiting |-> FALSE, ret |-> {}]
    /\ fset = 0
    /\ dirtyFiles = {}
    /\ parses = EmptyMap
    /\ checks = EmptyMap
    /\ locks = [mu |-> "", ld |-> ""]
    /\ running = EmptyMap

Init ==
    /\ InitEngine
    /\ parseTyp = <<>>
    /\ parseRet = NoParse

(***************************************************************************)
(* Registration.                                                           *)
(***************************************************************************)
CanRegister(max) == doPc = "idle" /\ ~panicked /\ regCalls < max

AddInterfaces(calls, max) ==
    /\ CanRegister(max)
    /\ \E specs \in calls : interfacePackages' = interfacePackages \o specs
    /\ regCalls' = regCalls + 1
    /\ walked' = <<>>
    /\ UNCHANGED <<parserVars, lockVars, stagedVars, options, functionPackages, implementationPackages,
                   commentExpressions, loaderVars, resultVars, doPc, doIdx, doNo,
                   doArgs, doRet, groups, coord, tasks, ctxCancelled, panicked>>

AddFunctions(calls, max) ==
    /\ CanRegister(max)
    /\ \E specs \in calls : functionPackages' = functionPackages \o specs
    /\ regCalls' = regCalls + 1
    /\ walked' = <<>>
    /\ UNCHANGED <<parserVars, lockVars, stagedVars, options, interfacePackages, implementationPackages,
                   commentExpressions, loaderVars, resultVars, doPc, doIdx, doNo,
                   doArgs, doRet, groups, coord, tasks, ctxCancelled, panicked>>

AddPackages(calls, max) ==
    /\ CanRegister(max)
    /\ \E pkgs \in calls :
           implementationPackages' = implementationPackages \o pkgs
    /\ regCalls' = regCalls + 1
    /\ walked' = <<>>
    /\ UNCHANGED <<parserVars, lockVars, stagedVars, options, interfacePackages, functionPackages,
                   commentExpressions, loaderVars, resultVars, doPc, doIdx, doNo,
                   doArgs, doRet, groups, coord, tasks, ctxCancelled, panicked>>

AddComments(calls, max) ==
    /\ CanRegister(max)
    /\ \E exprs \in calls :
           commentExpressions' = commentExpressions \o exprs
    /\ regCalls' = regCalls + 1
    /\ walked' = <<>>
    /\ UNCHANGED <<parserVars, lockVars, stagedVars, options, interfacePackages, functionPackages,
                   implementationPackages, loaderVars, resultVars, doPc, doIdx,
                   doNo, doArgs, doRet, groups, coord, tasks, ctxCancelled,
                   panicked>>

(***************************************************************************)
(* Do: load, then resolve the interfaces, then scan.                       *)
(***************************************************************************)
SeqToSet(q) == {q[i] : i \in 1..Len(q)}

\* Do returns err to its caller. The tasks of a group nobody waits for any
\* more run on as orphans.
Orphaned(ts, gs) ==
    [k \in DOMAIN ts |->
        IF ts[k].grp \in gs THEN [ts[k] EXCEPT !.orphan = TRUE] ELSE ts[k]]

\* A loadPaths that reports no error whatever packages.Load returned.
LoadErrorsNone(paths) == {}

\* loadPaths, first half: what packages.Load reports for the paths.
LoadErrors(paths) ==
    {ErrFind(p) : p \in {q \in SeqToSet(paths) : LoadOutcome(q) = "notfound"}}
        \cup {ErrTypeCheck(p) :
                p \in {q \in SeqToSet(paths) : LoadOutcome(q) = "illtyped"}}

\* loadPaths, second half: every package and file of this load replaces
\* what the cache held for it.
InsertPackages(pkgs, paths, gen) ==
    [p \in DOMAIN pkgs \cup SeqToSet(paths) |->
        IF p \in SeqToSet(paths) THEN gen ELSE pkgs[p]]
InsertFiles(fs, paths, gen) ==
    LET new == UNION {PkgFiles(p) : p \in SeqToSet(paths)}
        owner(f) == CHOOSE p \in SeqToSet(paths) : f \in PkgFiles(p)
    IN  [f \in DOMAIN fs \cup new |->
            IF f \in new THEN [path |-> owner(f), gen |-> gen] ELSE fs[f]]

CountLoads(n, paths) ==
    [p \in DOMAIN n \cup SeqToSet(paths) |->
        (IF p \in DOMAIN n THEN n[p] ELSE 0)
            + (IF p \in SeqToSet(paths) THEN 1 ELSE 0)]

\* Do returns errs to its caller: its groups and its context are gone.
DoReturn(errs) ==
    /\ doPc' = "idle"
    /\ doRet' = errs
    /\ doIdx' = 0
    /\ UNCHANGED doArgs
    /\ groups' = [g \in GroupIds |-> NewGroup]
    /\ coord' = [c \in {"fn", "impl", "cmt"} |-> CoordOff]
    /\ ctxCancelled' = FALSE

\* Do up to the return of loadPaths. ctxDone: the caller's context is
\* already cancelled when Do is called.
DoCall(max, ctxs) ==
    /\ doPc = "idle"
    /\ ~panicked
    /\ doNo < max
    /\ \E ctxDone \in ctxs :
        LET ifcs == dedup(interfacePackages)
            fns == dedup(functionPackages)
            pkgs == dedup(implementationPackages)
            allPackages == packagesToLoad(ifcs, fns, pkgs)
            cmts == dedup(commentExpressions)
            errs == LoadErrors(allPackages)
        IN  /\ doNo' = doNo + 1
            /\ doArgs' = [ifcs |-> ifcs, fns |-> fns, pkgs |-> pkgs, cmts |-> cmts]
            /\ doLoaded' = SeqToSet(allPackages)
            /\ nLoads' = CountLoads(nLoads, allPackages)
            /\ walked' = <<>>
            /\ IF errs # {}
               THEN /\ doPc' = "idle"
                    /\ doRet' = errs
                    /\ doIdx' = 0
                    /\ UNCHANGED <<groups, coord, ctxCancelled>>
                    /\ UNCHANGED <<ldPackages, ldFiles>>
               ELSE /\ doRet' = {}
                    /\ doPc' = "ifc"
                    /\ doIdx' = 1
                    /\ ctxCancelled' = ctxDone
                    /\ UNCHANGED <<groups, coord>>
                    /\ ldPackages' = InsertPackages(ldPackages, allPackages, doNo + 1)
                    /\ ldFiles' = InsertFiles(ldFiles, allPackages, doNo + 1)
    /\ UNCHANGED <<parserVars, lockVars, stagedVars, options, regVars, resultVars, tasks, panicked, regCalls>>

\* The caller's context is cancelled while Do runs.
Cancel ==
    /\ doPc # "idle"
    /\ ~panicked
    /\ ~ctxCancelled
    /\ ctxCancelled' = TRUE
    /\ UNCHANGED <<parserVars, lockVars, stagedVars, options, regVars, loaderVars, resultVars, doPc, doIdx, doNo,
                   doArgs, doRet, groups, coord, tasks, panicked, walked,
                   regCalls>>

NewFrame(path, re) ==
    [path |-> path, re |-> re, gen |-> 0, started |-> FALSE, todo |-> {},
     found |-> 0, cur |-> NoId, embIdx |-> 0, names |-> {}, ltodo |-> {}]

NewTask(kind, grp, path, re) ==
    [kind |-> kind, grp |-> grp, orphan |-> FALSE,
     stack |-> <<NewFrame(path, re)>>, ret |-> {}, fin |-> FALSE]

\* The spec list a dispatch loop ranges over, and the kind of its tasks.
DispList(g) ==
    CASE g = "ifc" -> doArgs.ifcs
      [] g = "fn" -> doArgs.fns
      [] OTHER -> doArgs.pkgs

\* The dispatch loop of group g is at its next element.
AtDispatch(g) ==
    /\ ~panicked
    /\ IF g = "ifc" THEN doPc = "ifc" ELSE coord[g].pc = "loop"
DispIdx(g) == IF g = "ifc" THEN doIdx ELSE coord[g].idx
HasNext(g) == AtDispatch(g) /\ DispIdx(g) <= Len(DispList(g))

\* The path and expression of the next element: findImplementations takes
\* the package path as it is.
NextSpec(g) ==
    IF g = "impl"
    THEN [path |-> DispList(g)[DispIdx(g)], re |-> <<>>, err |-> NoError]
    ELSE getPathAndRegexp(DispList(g)[DispIdx(g)])

Advance(g) ==
    IF g = "ifc"
    THEN /\ doIdx' = doIdx + 1
         /\ UNCHANGED coord
    ELSE /\ coord' = [coord EXCEPT ![g].idx = @ + 1]
         /\ UNCHANGED doIdx

\* The goroutine of group top that ran loop g returns errs: errgroup records
\* the error and cancels the group's context.
CoordReturn(gs, g, errs) ==
    [gs EXCEPT !["top"].errs = @ \cup errs,
               !["top"].cancelled = @ \/ errs # {}]

\* getPathAndRegexp fails: the loop returns the error at once, without
\* waiting for the tasks it has started.
DispBadSpec(g) ==
    /\ HasNext(g)
    /\ NextSpec(g).err # NoError
    /\ tasks' = Orphaned(tasks, {g})
    /\ IF g = "ifc"
       THEN DoReturn(NextSpec(g).err)
       ELSE /\ coord' = [coord EXCEPT ![g] = CoordOff]
            /\ groups' = CoordReturn(groups, g, NextSpec(g).err)
            /\ UNCHANGED <<doPc, doRet, doIdx, doArgs, ctxCancelled>>
    /\ UNCHANGED <<parserVars, lockVars, stagedVars, options, regVars, loaderVars, resultVars, doNo, panicked,
                   walked, regCalls>>

\* GoContext with a context that is done: the task is not started and the
\* context's error is recorded.
DispSkip(g) ==
    /\ HasNext(g)
    /\ NextSpec(g).err = NoError
    /\ CtxDone(g)
    /\ groups' = [groups EXCEPT ![g].errs = @ \cup {ErrCanceled}]
    /\ Advance(g)
    /\ UNCHANGED <<parserVars, lockVars, stagedVars, options, regVars, loaderVars, resultVars, doPc, doNo, doArgs,
                   doRet, tasks, ctxCancelled, panicked, walked,
                   regCalls>>

\* GoContext starts the task, once the concurrency limit has room for it.
DispSpawn(g) ==
    /\ HasNext(g)
    /\ NextSpec(g).err = NoError
    /\ ~CtxDone(g)
    /\ options.concurrency = 0 \/ groups[g].running < options.concurrency
    /\ tasks' = Put(tasks, <<g, doNo, DispIdx(g)>>,
                    NewTask(g, g, NextSpec(g).path, NextSpec(g).re))
    /\ groups' = [groups EXCEPT ![g].running = @ + 1]
    /\ Advance(g)
    /\ UNCHANGED <<parserVars, lockVars, stagedVars, options, regVars, loaderVars, resultVars, doPc, doNo, doArgs,
                   doRet, ctxCancelled, panicked, walked,
                   regCalls>>

\* A Wait that does not wait for the goroutines of the group.
GroupIdleAlways(g) == TRUE

\* Every goroutine the group has started has returned.
GroupIdle(g) == groups[g].running = 0

\* group.Wait returns once every task of the group has finished.
DispWait(g) ==
    /\ AtDispatch(g)
    /\ DispIdx(g) > Len(DispList(g))
    /\ GroupIdle(g)
    /\ IF g = "ifc"
       THEN IF groups[g].errs # {}
            THEN DoReturn(groups[g].errs)
            ELSE /\ doPc' = "top"
                 /\ doIdx' = 1
                 /\ UNCHANGED <<doRet, doArgs, groups, coord, ctxCancelled>>
       ELSE /\ coord' = [coord EXCEPT ![g] = CoordOff]
            /\ groups' = [CoordReturn(groups, g, groups[g].errs)
                              EXCEPT ![g] = NewGroup]
            /\ UNCHANGED <<doPc, doIdx, doRet, doArgs, ctxCancelled>>
    /\ UNCHANGED <<parserVars, lockVars, stagedVars, options, regVars, loaderVars, resultVars, doNo, tasks,
                   panicked, walked, regCalls>>

\* Do starts the three scans in its own group.
TopNames == <<"fn", "impl", "cmt">>

TopDispatch ==
    /\ doPc = "top"
    /\ ~panicked
    /\ doIdx <= Len(TopNames)
    /\ IF groups["top"].cancelled \/ ctxCancelled
       THEN /\ groups' = [groups EXCEPT !["top"].errs = @ \cup {ErrCanceled}]
            /\ UNCHANGED coord
       ELSE /\ coord' = [coord EXCEPT ![TopNames[doIdx]] =
                            [CoordOff EXCEPT
                                !.pc = IF TopNames[doIdx] = "cmt" THEN "start"
                                       ELSE "loop",
                                !.idx = 1]]
            /\ UNCHANGED groups
    /\ doIdx' = doIdx + 1
    /\ UNCHANGED <<parserVars, lockVars, stagedVars, options, regVars, loaderVars, resultVars, doPc, doNo, doArgs,
                   doRet, tasks, ctxCancelled, panicked, walked,
                   regCalls>>

\* grp.Wait: the three scans have returned; Do returns their errors.
TopWait ==
    /\ doPc = "top"
    /\ ~panicked
    /\ doIdx > Len(TopNames)
    /\ \A c \in DOMAIN coord : coord[c].pc = "off"
    /\ DoReturn(groups["top"].errs)
    /\ UNCHANGED <<parserVars, lockVars, stagedVars, options, regVars, loaderVars, resultVars, doNo, tasks,
                   panicked, walked, regCalls>>

(***************************************************************************)
(* The tasks: findInterfacesInPackage, findFunctionsInPackage and          *)
(* findImplementationInPackage.  A task is a stack of frames, one per      *)
(* nested call of findInterfacesInPackage.                                 *)
(***************************************************************************)
\* The definitions of types.Info.Defs a task acts on.
Candidates(kind, path, re) ==
    CASE kind = "ifc" ->
            {id \in Defs(path) :
                /\ IsExported(World[id].name)
                /\ MatchString(re, World[id].name)
                /\ World[id].kind = "type"
                /\ isInterfaceType(path, ObjType(id)) # NoId}
      [] kind = "fn" ->
            {id \in Defs(path) :
                /\ IsExported(World[id].name)
                /\ MatchString(re, World[id].name)
                /\ World[id].kind = "func"
                /\ World[id].recv = NoId}
      [] OTHER ->
            {id \in Defs(path) :
                /\ IsExported(World[id].name)
                /\ World[id].kind = "func"
                /\ World[id].recv # NoId
                /\ isInterfaceType(path, World[id].recv) = NoId}

\* A second loop that finds nothing: no embedded interface of the package
\* is registered.
EmbeddedCandidatesNone(path, names) == {}

\* The second loop over Defs of findInterfacesInPackage: the definitions
\* whose name is one of the embedded names and whose type is an interface
\* of the package.
EmbeddedCandidates(path, names) ==
    {ek \in Defs(path) :
        /\ World[ek].name \in names
        /\ isInterfaceType(path, ObjType(ek)) # NoId}

\* A call that found nothing ends in an error, only when missing names are
\* ignored a call that found none ends as one that found some.  This one
\* never ends in an error.
noneFoundIgnored(kind, found) == FALSE

\* A test that does not look at the option: a call that found nothing ends
\* in an error whatever the engine was made with.
noneFoundAlways(kind, found) == kind # "impl" /\ found = 0

\* The test at the end of findInterfacesInPackage and of
\* findFunctionsInPackage; findImplementationInPackage has none.
noneFound(kind, found) ==
    kind # "impl" /\ ~options.ignoreMissing /\ found = 0

\* Run a task on from the top of its stack up to its next access to the
\* loader or to the engine's maps, or to its return.
RECURSIVE Settle(_, _)
Settle(kind, stack) ==
    IF stack = <<>> THEN [stack |-> <<>>, ret |-> {}, fin |-> TRUE]
    ELSE
    LET n == Len(stack)
        f == stack[n]
        below == SubSeq(stack, 1, n - 1)
        stop == [stack |-> stack, ret |-> {}, fin |-> FALSE]
    IN  IF ~f.started THEN stop
        ELSE IF f.cur # NoId
        THEN LET embeds == World[f.cur].embeds
             IN  IF f.embIdx <= Len(embeds)
                 THEN LET e == embeds[f.embIdx]
                      IN  IF World[e].pkg # f.path
                          THEN [stop EXCEPT !.stack =
                                    Append(stack, NewFrame(World[e].pkg,
                                                World[e].name \o <<"$">>))]
                          ELSE Settle(kind, Append(below,
                                    [f EXCEPT !.names = @ \cup {World[e].name},
                                              !.embIdx = @ + 1]))
                 ELSE IF f.embIdx = Len(embeds) + 1
                 THEN [stop EXCEPT !.stack = Append(below,
                            [f EXCEPT !.ltodo = EmbeddedCandidates(f.path, f.names),
                                      !.embIdx = @ + 1])]
                 ELSE stop
        ELSE IF f.todo # {} THEN stop
        ELSE IF noneFound(kind, f.found)
        THEN [stack |-> <<>>, ret |-> {ErrNoneFound(kind, f.path, f.re)},
              fin |-> TRUE]
        ELSE IF below = <<>> THEN [stack |-> <<>>, ret |-> {}, fin |-> TRUE]
        ELSE Settle(kind, Append(SubSeq(below, 1, n - 2),
                        [below[n - 1] EXCEPT !.embIdx = @ + 1]))

\* The task k with its top frame replaced by f, run on.
WithTop(k, f) ==
    LET t == tasks[k]
        r == Settle(t.kind, Append(SubSeq(t.stack, 1, Len(t.stack) - 1), f))
    IN  [t EXCEPT !.stack = r.stack, !.ret = r.ret, !.fin = r.fin]

Top(k) == tasks[k].stack[Len(tasks[k].stack)]

Running(k) == ~panicked /\ k \in DOMAIN tasks /\ ~tasks[k].fin

\* lookupPackage at the start of a call: the cached package, or the lookup
\* error when the loader has none for the path.
TaskStart(k) ==
    /\ Running(k)
    /\ ~Top(k).started
    /\ IF Top(k).path \in DOMAIN ldPackages
       THEN tasks' = [tasks EXCEPT ![k] = WithTop(k,
                        [Top(k) EXCEPT
                            !.started = TRUE,
                            !.gen = ldPackages[Top(k).path],
                            !.todo = Candidates(tasks[k].kind, Top(k).path,
                                                Top(k).re)])]
       ELSE tasks' = [tasks EXCEPT ![k] =
                        [@ EXCEPT !.stack = <<>>, !.fin = TRUE,
                                  !.ret = {ErrLookup(tasks[k].kind, Top(k).path)}]]
    /\ UNCHANGED <<parserVars, lockVars, stagedVars, options, regVars, loaderVars, resultVars, doPc, doIdx, doNo,
                   doArgs, doRet, groups, coord, ctxCancelled, panicked, walked,
                   regCalls>>

\* The goroutine of a task ends: errgroup records its error, cancels the
\* group's context on an error and frees the task's slot.
TaskDone(k) ==
    /\ ~panicked
    /\ k \in DOMAIN tasks
    /\ tasks[k].fin
    /\ tasks' = [x \in DOMAIN tasks \ {k} |-> tasks[x]]
    /\ IF tasks[k].orphan
       THEN UNCHANGED groups
       ELSE groups' = [groups EXCEPT
                          ![tasks[k].grp].errs = @ \cup tasks[k].ret,
                          ![tasks[k].grp].cancelled = @ \/ tasks[k].ret # {},
                          ![tasks[k].grp].running = @ - 1]
    /\ UNCHANGED <<parserVars, lockVars, stagedVars, options, regVars, loaderVars, resultVars, doPc, doIdx, doNo,
                   doArgs, doRet, coord, ctxCancelled, panicked, walked,
                   regCalls>>

\* loader.position: the position of a definition, resolved in the file set
\* of the package the loader holds now.  When that is not the load the
\* task's type information came from, the token.Pos belongs to another
\* file set: it may resolve to the same place or to none.
Positions(path, gen, id) ==
    LET true == [file |-> World[id].file, off |-> World[id].off]
    IN  IF path \notin DOMAIN ldPackages THEN {EmptyPos}
        ELSE IF ldPackages[path] = gen THEN {true}
        ELSE {true, EmptyPos}

\* findInterfaceDecl: the type declaration of that name in the file.
findInterfaceDecl(name, filename) ==
    LET found == {id \in Ids : /\ World[id].kind = "type"
                               /\ World[id].file = filename
                               /\ World[id].name = name}
    IN  IF found = {} THEN NoId ELSE CHOOSE id \in found : TRUE

\* addInterface, under the engine's lock: the entry for fqn is replaced;
\* no declaration of that name in the file of the position is a panic.
addInterface(path, name, ifcType, gen, pos) ==
    LET filename == pos.file
        decl == IF filename \in DOMAIN ldFiles
                THEN findInterfaceDecl(name, filename) ELSE NoId
    IN  [interfaces |-> Put(interfaces, Fqn(path, name),
                            [path |-> path, ifc |-> ifcType, decl |-> decl,
                             file |-> filename, off |-> pos.off, gen |-> gen]),
         dirty |-> IF decl = NoId THEN dirty
                   ELSE SetDirty(dirty, filename, HasInterface),
         panic |-> decl = NoId]

\* The effect of one addInterface call by task k, which goes on as frame f.
DoAddInterface(k, f, id, ifcType) ==
    \E pos \in Positions(Top(k).path, Top(k).gen, id) :
        LET r == addInterface(Top(k).path, World[id].name, ifcType,
                              Top(k).gen, pos)
        IN  /\ interfaces' = r.interfaces
            /\ dirty' = r.dirty
            /\ panicked' = r.panic
            /\ tasks' = [tasks EXCEPT ![k] = WithTop(k, f)]

AtDefs(k, kind) ==
    /\ Running(k)
    /\ tasks[k].kind = kind
    /\ Top(k).started
    /\ Top(k).cur = NoId

\* An interface without embedded interfaces: found++ and addInterface.
IfcAdd(k) ==
    /\ AtDefs(k, "ifc")
    /\ \E id \in Top(k).todo :
        /\ World[id].embeds = <<>>
        /\ DoAddInterface(k, [Top(k) EXCEPT !.todo = @ \ {id}, !.found = @ + 1],
                          id, id)
    /\ UNCHANGED <<parserVars, lockVars, stagedVars, options, regVars, loaderVars, functions, comments, doPc, doIdx,
                   doNo, doArgs, doRet, groups, coord, ctxCancelled, walked,
                   regCalls>>

\* An interface with embedded interfaces: the loop over them starts.
IfcEnter(k) ==
    /\ AtDefs(k, "ifc")
    /\ \E id \in Top(k).todo :
        /\ World[id].embeds # <<>>
        /\ tasks' = [tasks EXCEPT ![k] = WithTop(k,
                        [Top(k) EXCEPT !.todo = @ \ {id}, !.cur = id,
                                       !.embIdx = 1, !.names = {}])]
    /\ UNCHANGED <<parserVars, lockVars, stagedVars, options, regVars, loaderVars, resultVars, doPc, doIdx, doNo,
                   doArgs, doRet, groups, coord, ctxCancelled, panicked, walked,
                   regCalls>>

AtEmbedded(k) ==
    /\ Running(k)
    /\ tasks[k].kind = "ifc"
    /\ Top(k).started
    /\ Top(k).cur # NoId
    /\ Top(k).embIdx = Len(World[Top(k).cur].embeds) + 2

\* addInterface for a definition found under an embedded name.
IfcEmbeddedAdd(k) ==
    /\ AtEmbedded(k)
    /\ \E ek \in Top(k).ltodo :
        DoAddInterface(k, [Top(k) EXCEPT !.ltodo = @ \ {ek}], ek,
                       isInterfaceType(Top(k).path, ObjType(ek)))
    /\ UNCHANGED <<parserVars, lockVars, stagedVars, options, regVars, loaderVars, functions, comments, doPc, doIdx,
                   doNo, doArgs, doRet, groups, coord, ctxCancelled, walked,
                   regCalls>>

\* found++ and addInterface for the embedding interface itself.
IfcSelfAdd(k) ==
    /\ AtEmbedded(k)
    /\ Top(k).ltodo = {}
    /\ DoAddInterface(k, [Top(k) EXCEPT !.cur = NoId, !.found = @ + 1],
                      Top(k).cur, Top(k).cur)
    /\ UNCHANGED <<parserVars, lockVars, stagedVars, options, regVars, loaderVars, functions, comments, doPc, doIdx,
                   doNo, doArgs, doRet, groups, coord, ctxCancelled, walked,
                   regCalls>>

\* implements with one more entry for each interface of ifcs.
AppendAll(implements, ifcs) ==
    [x \in DOMAIN implements \cup ifcs |->
        (IF x \in DOMAIN implements THEN implements[x] ELSE 0)
            + (IF x \in ifcs THEN 1 ELSE 0)]

\* findFuncOrMethodDecl: the declaration in the file whose name is at the
\* function's position.  same: the file and the function are of one file
\* set, or of two that place the file alike.
findFuncOrMethodDecl(id, filename, same) ==
    IF World[id].body /\ World[id].file = filename /\ same THEN id ELSE NoId

\* addFunctionLocked, called once with implements empty or once for each
\* interface of ifcs.
addFunctionLocked(path, id, gen, pos, same, free, ifcs) ==
    LET filename == pos.file
        decl == IF filename \in DOMAIN ldFiles
                THEN findFuncOrMethodDecl(id, filename, same) ELSE NoId
        fqn == FullName(id)
        old == IF fqn \in DOMAIN functions THEN functions[fqn].implements
               ELSE EmptyMap
        called == free \/ ifcs # {}
    IN  IF ~called \/ (filename \in DOMAIN ldFiles /\ decl = NoId)
        THEN [functions |-> functions, dirty |-> dirty, panic |-> FALSE]
        ELSE IF filename \notin DOMAIN ldFiles
        THEN [functions |-> functions, dirty |-> dirty, panic |-> TRUE]
        ELSE [functions |-> Put(functions, fqn,
                    [path |-> path, fn |-> id, file |-> filename,
                     off |-> pos.off, gen |-> gen,
                     implements |-> IF free THEN EmptyMap
                                    ELSE AppendAll(old, ifcs)]),
              dirty |-> SetDirty(dirty, filename, HasFunction),
              panic |-> FALSE]

DoAddFunction(k, id, free, ifcs) ==
    \E pos \in Positions(Top(k).path, Top(k).gen, id) :
      \E same \in IF pos.file \in DOMAIN ldFiles
                     /\ ldFiles[pos.file].gen # Top(k).gen
                  THEN BOOLEAN ELSE {TRUE} :
        LET r == addFunctionLocked(Top(k).path, id, Top(k).gen, pos, same,
                                   free, ifcs)
        IN  /\ functions' = r.functions
            /\ dirty' = r.dirty
            /\ panicked' = r.panic
            /\ tasks' = [tasks EXCEPT ![k] = WithTop(k,
                            [Top(k) EXCEPT !.todo = @ \ {id},
                                           !.found = @ + 1])]

\* A function matching the spec: found++ and addFunction.
FnAdd(k) ==
    /\ AtDefs(k, "fn")
    /\ \E id \in Top(k).todo : DoAddFunction(k, id, TRUE, {})
    /\ UNCHANGED <<parserVars, lockVars, stagedVars, options, regVars, loaderVars, interfaces, comments, doPc,
                   doIdx, doNo, doArgs, doRet, groups, coord, ctxCancelled,
                   walked,
                   regCalls>>

\* A concrete method: under the engine's lock, addFunctionLocked for every
\* interface known now that the receiver implements.
ImplVisit(k) ==
    /\ AtDefs(k, "impl")
    /\ \E id \in Top(k).todo :
        DoAddFunction(k, id, FALSE,
            {fqn \in DOMAIN interfaces :
                Implements(World[id].recv, World[id].ptr, interfaces[fqn].ifc)})
    /\ UNCHANGED <<parserVars, lockVars, stagedVars, options, regVars, loaderVars, interfaces, comments, doPc,
                   doIdx, doNo, doArgs, doRet, groups, coord, ctxCancelled,
                   walked,
                   regCalls>>

(***************************************************************************)
(* findComments.                                                           *)
(***************************************************************************)
\* sort.Slice by name of the loader's files.
RECURSIVE SortNames(_)
SortNames(S) ==
    IF S = {} THEN <<>>
    ELSE LET m == CHOOSE x \in S : \A y \in S : ~StrLess(y, x)
         IN  <<m>> \o SortNames(S \ {m})

\* The expressions at index from or later that match the text.
Matching(exprs, text, from) ==
    {i \in from..Len(exprs) : MatchString(exprs[i], text)}
Least(S) == CHOOSE i \in S : \A j \in S : i <= j

\* The comment groups of a file that some expression matches.
Hits(exprs, filename) ==
    {cg \in CommentGroups(filename) : Matching(exprs, cg.text, 1) # {}}

\* walkFiles goes on to the next file with a matching comment group, or ends.
RECURSIVE NextFile(_, _)
NextFile(c, exprs) ==
    IF c.idx > Len(c.files) THEN CoordOff
    ELSE IF Hits(exprs, c.files[c.idx].name) # {}
    THEN [c EXCEPT !.pc = "walk", !.ctodo = Hits(exprs, c.files[c.idx].name),
                   !.ridx = 0]
    ELSE NextFile([c EXCEPT !.idx = @ + 1], exprs)

\* findComments up to walkFiles' copy of the loader's files: the compile
\* errors of all the expressions are returned together.
CmtStart ==
    /\ ~panicked
    /\ coord["cmt"].pc = "start"
    /\ LET bad == {e \in SeqToSet(doArgs.cmts) : ~RegexpCompiles(e)}
           names == SortNames(DOMAIN ldFiles)
           copied == [i \in 1..Len(names) |->
                        [name |-> names[i], gen |-> ldFiles[names[i]].gen]]
       IN  IF bad # {}
           THEN /\ coord' = [coord EXCEPT !["cmt"] = CoordOff]
                /\ groups' = CoordReturn(groups, "cmt",
                                         {ErrParseRegexp(e) : e \in bad})
           ELSE /\ coord' = [coord EXCEPT !["cmt"] =
                                NextFile([@ EXCEPT !.files = copied, !.idx = 1],
                                         doArgs.cmts)]
                /\ UNCHANGED groups
    /\ UNCHANGED <<parserVars, lockVars, stagedVars, options, regVars, loaderVars, resultVars, doPc, doIdx, doNo,
                   doArgs, doRet, tasks, ctxCancelled, panicked, walked,
                   regCalls>>

\* addComment, under the engine's lock.
addComment(cmts, re, filename, cg, gen) ==
    Put(cmts, re,
        Append(IF re \in DOMAIN cmts THEN cmts[re] ELSE <<>>,
               [re |-> re, filename |-> filename, off |-> cg.off, gen |-> gen]))

\* The next match of an expression against a comment group, in the order
\* of the loops: files by name, the comment groups of a file in the order
\* of the map, the expressions as given.
CmtAdd ==
    /\ ~panicked
    /\ coord["cmt"].pc = "walk"
    /\ LET c == coord["cmt"]
           exprs == doArgs.cmts
           file == c.files[c.idx]
       IN  \E cg \in IF c.ridx = 0 THEN c.ctodo ELSE {c.cur} :
             LET r == Least(Matching(exprs, cg.text,
                                     IF c.ridx = 0 THEN 1 ELSE c.ridx))
                 more == Matching(exprs, cg.text, r + 1)
                 rest == c.ctodo \ {cg}
             IN  /\ comments' = addComment(comments, exprs[r], file.name, cg,
                                           file.gen)
                 /\ dirty' = SetDirty(dirty, file.name, HasComment)
                 /\ coord' = [coord EXCEPT !["cmt"] =
                        IF more # {}
                        THEN [c EXCEPT !.cur = cg, !.ridx = Least(more),
                                       !.ctodo = rest]
                        ELSE IF rest # {}
                        THEN [c EXCEPT !.ridx = 0, !.ctodo = rest]
                        ELSE NextFile([c EXCEPT !.ridx = 0, !.ctodo = {},
                                                !.idx = @ + 1], exprs)]
    /\ UNCHANGED <<parserVars, lockVars, stagedVars, options, regVars, loaderVars, interfaces, functions, doPc,
                   doIdx, doNo, doArgs, doRet, groups, tasks, ctxCancelled,
                   panicked, walked,
                   regCalls>>

(***************************************************************************)
(* The ordered walks.                                                      *)
(***************************************************************************)
\* A comparison by offset alone.
sorterLessByOffset(a, b) == a.off < b.off

\* The comparison of sorter: by file name, then by offset.
sorterLess(a, b) ==
    IF a.file = b.file THEN a.off < b.off ELSE StrLess(a.file, b.file)

\* sort.Slice is not stable and the entries come out of a map in any
\* order: every arrangement the comparison allows can be the result.
RECURSIVE sorter(_)
sorter(S) ==
    IF S = {} THEN {<<>>}
    ELSE UNION {{<<m>> \o rest : rest \in sorter(S \ {m})} :
                    m \in {x \in S : \A y \in S : ~sorterLess(y, x)}}

InterfaceEntries ==
    {[name |-> k, file |-> interfaces[k].file, off |-> interfaces[k].off,
      n |-> 1] : k \in DOMAIN interfaces}
FunctionEntries ==
    {[name |-> k, file |-> functions[k].file, off |-> functions[k].off,
      n |-> 1] : k \in DOMAIN functions}
CommentEntries ==
    UNION {{[name |-> re, file |-> comments[re][i].filename,
             off |-> comments[re][i].off, n |-> i] :
                i \in 1..Len(comments[re])} : re \in DOMAIN comments}

CanWalk == doPc = "idle" /\ ~panicked /\ Len(walked) < MaxWalks

Walk(kind, entries) ==
    /\ CanWalk
    /\ \E out \in sorter(entries) :
           walked' = Append(walked, [kind |-> kind, src |-> entries, out |-> out])
    /\ UNCHANGED <<parserVars, lockVars, stagedVars, options, regVars, loaderVars, resultVars, doPc, doIdx, doNo,
                   doArgs, doRet, groups, coord, tasks, ctxCancelled, panicked,
                   regCalls>>

WalkInterfaces == Walk("interfaces", InterfaceEntries)
WalkFunctions == Walk("functions", FunctionEntries)
WalkComments == Walk("comments", CommentEntries)

TaskIds == GroupIds \X (1..MaxDoAgain) \X (1..2 * MaxReg)

Next ==
    \/ AddInterfaces(IfcCalls, MaxReg)
    \/ AddFunctions(FnCalls, MaxReg)
    \/ AddPackages(PkgCalls, MaxReg)
    \/ AddComments(CommentCalls, MaxReg)
    \/ DoCall(MaxDo, BOOLEAN)
    \/ Cancel
    \/ \E g \in {"ifc", "fn"} : DispBadSpec(g)
    \/ \E g \in {"ifc", "fn", "impl"} : DispSkip(g)
    \/ \E g \in {"ifc", "fn", "impl"} : DispSpawn(g)
    \/ \E g \in {"ifc", "fn", "impl"} : DispWait(g)
    \/ TopDispatch
    \/ TopWait
    \/ \E k \in TaskIds : TaskStart(k)
    \/ \E k \in TaskIds : IfcAdd(k)
    \/ \E k \in TaskIds : IfcEnter(k)
    \/ \E k \in TaskIds : IfcEmbeddedAdd(k)
    \/ \E k \in TaskIds : IfcSelfAdd(k)
    \/ \E k \in TaskIds : FnAdd(k)
    \/ \E k \in TaskIds : ImplVisit(k)
    \/ \E k \in TaskIds : TaskDone(k)
    \/ CmtStart
    \/ CmtAdd
    \/ WalkInterfaces
    \/ WalkFunctions
    \/ WalkComments

Spec == Init /\ [][Next]_vars

(***************************************************************************)
(* Do called again on the same engine, by a caller whose specs are well    *)
(* formed and whose context is never cancelled.                            *)
(***************************************************************************)
IfcCallsAgain == {<<PD>>, <<PE \o <<".", "E", "$">>>>}
FnCallsAgain == {<<PD>>}
PkgCallsAgain == {<<PI>>, <<PP>>}
CommentCallsAgain == {<<<<"x">>, <<"g">>>>}

NextAgain ==
    \/ AddInterfaces(IfcCallsAgain, MaxReg)
    \/ AddFunctions(FnCallsAgain, MaxReg)
    \/ AddPackages(PkgCallsAgain, MaxReg)
    \/ AddComments(CommentCallsAgain, MaxReg)
    \/ DoCall(MaxDoAgain, {FALSE})
    \/ \E g \in {"ifc", "fn", "impl"} : DispSpawn(g)
    \/ \E g \in {"ifc", "fn", "impl"} : DispWait(g)
    \/ TopDispatch
    \/ TopWait
    \/ \E k \in TaskIds : TaskStart(k)
    \/ \E k \in TaskIds : IfcAdd(k)
    \/ \E k \in TaskIds : IfcEnter(k)
    \/ \E k \in TaskIds : IfcEmbeddedAdd(k)
    \/ \E k \in TaskIds : IfcSelfAdd(k)
    \/ \E k \in TaskIds : FnAdd(k)
    \/ \E k \in TaskIds : ImplVisit(k)
    \/ \E k \in TaskIds : TaskDone(k)
    \/ CmtStart
    \/ CmtAdd
    \/ WalkInterfaces
    \/ WalkFunctions
    \/ WalkComments

SpecAgain == Init /\ [][NextAgain]_vars

(***************************************************************************)
(* The engine with the staged cache: AddInterfaces and AddFunctions locate *)
(* at once, one goroutine for each spec, and every goroutine brings its    *)
(* package through build, buildAndParse and buildParseAndCheck itself.     *)
(* All parses add their files to the one file set of the engine, so the    *)
(* positions of two parses of a file are different.                        *)
(***************************************************************************)
MaxAddCalls == 2

\* packageName: the package path and the compiled expression of a spec, or
\* the error; a spec without a slash is an expression without a path.
packageName(typ) ==
    LET idx == LastIndex(typ, "/")
        p == IF idx < 0 THEN [path |-> <<>>, expr |-> typ]
             ELSE parseSpecAndRegexp(typ)
    IN  IF RegexpCompiles(p.expr)
        THEN [path |-> p.path, re |-> p.expr, err |-> NoError]
        ELSE [path |-> <<>>, re |-> <<>>, err |-> {ErrRegexp(p.expr)}]

ErrImport(path) == [kind |-> "failed to import", what |-> path]

\* The package names parser.ParseDir finds in the directory of a path: the
\* directory of t/w holds files of package w and files of package w2.
PackageNames(path) ==
    IF path = PW THEN {<<"w">>, <<"w", "2">>} ELSE {<<path[Len(path)]>>}

\* The error of buildAndParse for a directory of several packages: the
\* directory and the names of all its packages.
ErrMultiple(path) ==
    [kind |-> "contains more than one package",
     what |-> <<path, PackageNames(path)>>]
ErrTypecheck(path) == [kind |-> "failed to typecheck", what |-> path]

\* A directory taken to hold one package whatever its files declare.
DirPackagesOne(path) == 1

\* The number of packages parser.ParseDir finds in the directory of a path.
DirPackages(path) == Cardinality(PackageNames(path))

\* isInterfaceType of this engine: the interface of any type that is one,
\* named or not, of any package.
isInterface(typ) ==
    IF typ = NoId THEN NoId
    ELSE IF World[typ].under = "interface" THEN typ
    ELSE NoId

\* A call of findInterfaces or findFunctions: where it is in
\* buildParseAndCheck, the parse it holds and the parse its types.Info is
\* of, and then its loop over Defs.
StagedFrame(path, re) ==
    [path |-> path, re |-> re, pc |-> "build", ast |-> 0, info |-> 0,
     todo |-> {}, found |-> 0, cur |-> NoId, embIdx |-> 0, names |-> {},
     ltodo |-> {}]

StagedTask(kind, path, re) ==
    [kind |-> kind, path |-> path, stack |-> <<StagedFrame(path, re)>>,
     ret |-> {}, fin |-> FALSE]

\* The specs before the first one packageName fails on, and its error.
RECURSIVE GoodPrefix(_)
GoodPrefix(specs) ==
    IF specs = <<>> THEN [specs |-> <<>>, err |-> NoError]
    ELSE IF packageName(specs[1]).err # NoError
    THEN [specs |-> <<>>, err |-> packageName(specs[1]).err]
    ELSE LET r == GoodPrefix(Tail(specs))
         IN  [specs |-> <<specs[1]>> \o r.specs, err |-> r.err]

\* AddInterfaces and AddFunctions: a goroutine for every spec, then
\* group.Wait; a spec packageName fails on ends the call at once, with the
\* goroutines started for the specs before it left running.
StagedAdd(kind, specs) ==
    /\ ~addCall.waiting
    /\ addCall.n < MaxAddCalls
    /\ LET r == GoodPrefix(specs)
           new == [k \in {addCall.n + 1} \X (1..Len(r.specs)) |->
                      StagedTask(kind, packageName(r.specs[k[2]]).path,
                                 packageName(r.specs[k[2]]).re)]
       IN  /\ staged' = [k \in DOMAIN staged \cup DOMAIN new |->
                            IF k \in DOMAIN new THEN new[k] ELSE staged[k]]
           /\ addCall' = [n |-> addCall.n + 1, waiting |-> r.err = NoError,
                          ret |-> r.err]
    /\ UNCHANGED <<parserVars, engineVars, lockVars, built, parsed, checked, files, interfaceDecl,
                   fnDecl, fset, dirtyFiles, parses, checks>>

StagedAddInterfaces(calls) == \E specs \in calls : StagedAdd("ifc", specs)
StagedAddFunctions(calls) == \E specs \in calls : StagedAdd("fn", specs)

\* A goroutine of the group returns: errgroup records its error.
StagedDone(k) ==
    /\ k \in DOMAIN staged
    /\ staged[k].fin
    /\ staged' = [x \in DOMAIN staged \ {k} |-> staged[x]]
    /\ addCall' = IF k[1] = addCall.n /\ addCall.waiting
                  THEN [addCall EXCEPT !.ret = @ \cup staged[k].ret]
                  ELSE addCall
    /\ UNCHANGED <<parserVars, engineVars, lockVars, built, parsed, checked, files, interfaceDecl,
                   fnDecl, fset, dirtyFiles, parses, checks>>

\* group.Wait returns when every goroutine of the call has.
StagedWait ==
    /\ addCall.waiting
    /\ \A k \in DOMAIN staged : k[1] # addCall.n
    /\ addCall' = [addCall EXCEPT !.waiting = FALSE]
    /\ UNCHANGED <<parserVars, engineVars, lockVars, built, parsed, checked, files, interfaceDecl,
                   fnDecl, staged, fset, dirtyFiles, parses, checks>>

StagedTop(k) == staged[k].stack[Len(staged[k].stack)]

StagedAt(k, pc) ==
    /\ k \in DOMAIN staged
    /\ ~staged[k].fin
    /\ StagedTop(k).pc = pc

\* The goroutine k returns err from where it is, through every call below.
StagedFail(k, err) ==
    [staged EXCEPT ![k] = [@ EXCEPT !.stack = <<>>, !.ret = {err}, !.fin = TRUE]]

\* The definitions of types.Info.Defs the loop of findInterfaces or of
\* findFunctions acts on.
StagedCandidates(kind, path, re) ==
    IF kind = "ifc"
    THEN {id \in Defs(path) :
            /\ IsExported(World[id].name)
            /\ MatchString(re, World[id].name)
            /\ isInterface(ObjType(id)) # NoId}
    ELSE {id \in Defs(path) :
            /\ IsExported(World[id].name)
            /\ MatchString(re, World[id].name)
            /\ World[id].kind = "func"
            /\ World[id].recv = NoId}

\* The goroutine k with its top frame replaced by f.
StagedWithTop(k, f) ==
    [staged EXCEPT ![k].stack = Append(SubSeq(@, 1, Len(@) - 1), f)]

\* The top frame of k, now holding its types.Info, at the start of its loop.
StagedScan(k, info) ==
    [StagedTop(k) EXCEPT
        !.pc = "scan", !.info = info,
        !.todo = StagedCandidates(staged[k].kind, StagedTop(k).path,
                                  StagedTop(k).re)]

\* build, first half: t.built is read under the lock.
BuildLookup(k) ==
    /\ StagedAt(k, "build")
    /\ staged' = StagedWithTop(k,
                    [StagedTop(k) EXCEPT !.pc =
                        IF StagedTop(k).path \in built THEN "parsed"
                        ELSE "import"])
    /\ UNCHANGED <<parserVars, engineVars, lockVars, built, parsed, checked, files, interfaceDecl,
                   fnDecl, addCall, fset, dirtyFiles, parses, checks>>

\* A build that does not keep what it located.
builtUnchanged(path) == built

\* t.built after build has located path.
builtWith(path) == built \cup {path}

\* build, second half: build.Import outside the lock, then the insert.
BuildImport(k) ==
    /\ StagedAt(k, "import")
    /\ IF LoadOutcome(StagedTop(k).path) = "notfound"
       THEN /\ staged' = StagedFail(k, ErrImport(StagedTop(k).path))
            /\ UNCHANGED built
       ELSE /\ built' = builtWith(StagedTop(k).path)
            /\ staged' = StagedWithTop(k, [StagedTop(k) EXCEPT !.pc = "parsed"])
    /\ UNCHANGED <<parserVars, engineVars, lockVars, parsed, checked, files, interfaceDecl, fnDecl,
                   addCall, fset, dirtyFiles, parses, checks>>

\* buildAndParse after build: t.parsed is read under the lock.
ParsedLookup(k) ==
    /\ StagedAt(k, "parsed")
    /\ staged' = StagedWithTop(k,
                    IF StagedTop(k).path \in DOMAIN parsed
                    THEN [StagedTop(k) EXCEPT
                            !.pc = "checked", !.ast = parsed[StagedTop(k).path]]
                    ELSE [StagedTop(k) EXCEPT !.pc = "parse"])
    /\ UNCHANGED <<parserVars, engineVars, lockVars, built, parsed, checked, files, interfaceDecl,
                   fnDecl, addCall, fset, dirtyFiles, parses, checks>>

\* buildAndParse: parser.ParseDir outside the lock, into the shared file
\* set, then the insert.
ParseDir(k) ==
    /\ StagedAt(k, "parse")
    /\ fset' = fset + 1
    /\ parses' = CountLoads(parses, <<StagedTop(k).path>>)
    /\ IF DirPackages(StagedTop(k).path) # 1
       THEN /\ staged' = StagedFail(k, ErrMultiple(StagedTop(k).path))
            /\ UNCHANGED parsed
       ELSE /\ parsed' = Put(parsed, StagedTop(k).path, fset + 1)
            /\ staged' = StagedWithTop(k,
                            [StagedTop(k) EXCEPT !.pc = "checked",
                                                 !.ast = fset + 1])
    /\ UNCHANGED <<parserVars, engineVars, lockVars, built, checked, files, interfaceDecl, fnDecl,
                   addCall, dirtyFiles, checks>>

\* buildParseAndCheck after buildAndParse: t.checked is read under the lock.
CheckedLookup(k) ==
    /\ StagedAt(k, "checked")
    /\ staged' = StagedWithTop(k,
                    IF StagedTop(k).path \in DOMAIN checked
                    THEN StagedScan(k, checked[StagedTop(k).path])
                    ELSE [StagedTop(k) EXCEPT !.pc = "check"])
    /\ UNCHANGED <<parserVars, engineVars, lockVars, built, parsed, checked, files, interfaceDecl,
                   fnDecl, addCall, fset, dirtyFiles, parses, checks>>

\* buildParseAndCheck: types.Config.Check outside the lock on the parse the
\* goroutine holds, then its files and its types.Info are inserted.
TypeCheck(k) ==
    /\ StagedAt(k, "check")
    /\ checks' = CountLoads(checks, <<StagedTop(k).path>>)
    /\ IF LoadOutcome(StagedTop(k).path) # "ok"
       THEN /\ staged' = StagedFail(k, ErrTypecheck(StagedTop(k).path))
            /\ UNCHANGED <<files, checked>>
       ELSE /\ files' = [f \in DOMAIN files \cup PkgFiles(StagedTop(k).path) |->
                            IF f \in PkgFiles(StagedTop(k).path)
                            THEN StagedTop(k).ast ELSE files[f]]
            /\ checked' = Put(checked, StagedTop(k).path, StagedTop(k).ast)
            /\ staged' = StagedWithTop(k, StagedScan(k, StagedTop(k).ast))
    /\ UNCHANGED <<parserVars, engineVars, lockVars, built, parsed, interfaceDecl, fnDecl, addCall,
                   fset, dirtyFiles, parses>>

\* addInterfaceLocked: the position names the file, whichever parse it is
\* of, and the declaration is looked up by name in the syntax t.files holds
\* for that file now.
addInterfaceLocked(k, id, ifcType) ==
    LET filename == World[id].file
        decl == findInterfaceDecl(World[id].name, filename)
    IN  /\ interfaceDecl' = Put(interfaceDecl,
                                Fqn(StagedTop(k).path, World[id].name),
                                [ifc |-> ifcType, info |-> StagedTop(k).info,
                                 decl |-> decl,
                                 declAst |-> IF decl = NoId THEN 0
                                             ELSE files[filename]])
        /\ dirtyFiles' = dirtyFiles \cup {filename}

\* findFuncOrMethodDecl of this engine: the declaration whose name is at the
\* position of fn, which no declaration of another parse is.
declAtPos(id, info, ast) == IF ast = info THEN id ELSE NoId

\* addFunctionLocked and addFunction, for a function that implements nothing.
stagedAddFunction(k, id) ==
    LET filename == World[id].file
        decl == declAtPos(id, StagedTop(k).info, files[filename])
    IN  /\ fnDecl' = Put(fnDecl, FullName(id),
                         [fn |-> id, info |-> StagedTop(k).info, decl |-> decl,
                          declAst |-> IF decl = NoId THEN 0 ELSE files[filename]])
        /\ dirtyFiles' = dirtyFiles \cup {filename}

StagedAtDefs(k, kind) ==
    /\ StagedAt(k, "scan")
    /\ staged[k].kind = kind
    /\ StagedTop(k).cur = NoId

\* The embedded interfaces of the interface a definition is of.
StagedEmbeds(id) == World[isInterface(ObjType(id))].embeds

\* An interface without embedded interfaces: found++ and addInterfaceLocked.
StagedIfcAdd(k) ==
    /\ StagedAtDefs(k, "ifc")
    /\ \E id \in StagedTop(k).todo :
        /\ StagedEmbeds(id) = <<>>
        /\ addInterfaceLocked(k, id, isInterface(ObjType(id)))
        /\ staged' = StagedWithTop(k, [StagedTop(k) EXCEPT !.todo = @ \ {id},
                                                           !.found = @ + 1])
    /\ UNCHANGED <<parserVars, engineVars, lockVars, built, parsed, checked, files, fnDecl, addCall,
                   fset, parses, checks>>

\* An interface with embedded interfaces: the loop over them starts.
StagedIfcEnter(k) ==
    /\ StagedAtDefs(k, "ifc")
    /\ \E id \in StagedTop(k).todo :
        /\ StagedEmbeds(id) # <<>>
        /\ staged' = StagedWithTop(k, [StagedTop(k) EXCEPT
                        !.todo = @ \ {id}, !.cur = id, !.embIdx = 1,
                        !.names = {}])
    /\ UNCHANGED <<parserVars, engineVars, lockVars, built, parsed, checked, files, interfaceDecl,
                   fnDecl, addCall, fset, dirtyFiles, parses, checks>>

\* The next embedded interface: one of another package is located as if it
\* had been asked for, by a nested findInterfaces; the name of a local one
\* is recorded.  After the last, the second loop over Defs starts.
StagedEmbedded(k) ==
    /\ StagedAt(k, "scan")
    /\ StagedTop(k).cur # NoId
    /\ LET f == StagedTop(k)
           embeds == StagedEmbeds(f.cur)
       IN  /\ f.embIdx <= Len(embeds) + 1
           /\ IF f.embIdx = Len(embeds) + 1
              THEN staged' = StagedWithTop(k, [f EXCEPT
                        !.embIdx = @ + 1,
                        !.ltodo = {ek \in Defs(f.path) :
                                    /\ World[ek].name \in f.names
                                    /\ isInterface(ObjType(ek)) # NoId}])
              ELSE LET e == embeds[f.embIdx]
                   IN  IF World[e].pkg # f.path
                       THEN staged' = [staged EXCEPT ![k].stack =
                                Append(@, StagedFrame(World[e].pkg,
                                            World[e].name \o <<"$">>))]
                       ELSE staged' = StagedWithTop(k, [f EXCEPT
                                !.embIdx = @ + 1,
                                !.names = @ \cup {World[e].name}])
    /\ UNCHANGED <<parserVars, engineVars, lockVars, built, parsed, checked, files, interfaceDecl,
                   fnDecl, addCall, fset, dirtyFiles, parses, checks>>

StagedAtNames(k) ==
    /\ StagedAt(k, "scan")
    /\ StagedTop(k).cur # NoId
    /\ StagedTop(k).embIdx = Len(StagedEmbeds(StagedTop(k).cur)) + 2

\* addInterfaceLocked for a definition found under an embedded name.
StagedEmbeddedAdd(k) ==
    /\ StagedAtNames(k)
    /\ \E ek \in StagedTop(k).ltodo :
        /\ addInterfaceLocked(k, ek, isInterface(ObjType(ek)))
        /\ staged' = StagedWithTop(k, [StagedTop(k) EXCEPT !.ltodo = @ \ {ek}])
    /\ UNCHANGED <<parserVars, engineVars, lockVars, built, parsed, checked, files, fnDecl, addCall,
                   fset, parses, checks>>

\* found++ and addInterfaceLocked for the embedding interface itself.
StagedSelfAdd(k) ==
    /\ StagedAtNames(k)
    /\ StagedTop(k).ltodo = {}
    /\ addInterfaceLocked(k, StagedTop(k).cur,
                          isInterface(ObjType(StagedTop(k).cur)))
    /\ staged' = StagedWithTop(k, [StagedTop(k) EXCEPT !.cur = NoId,
                                                       !.found = @ + 1])
    /\ UNCHANGED <<parserVars, engineVars, lockVars, built, parsed, checked, files, fnDecl, addCall,
                   fset, parses, checks>>

\* A function without a receiver: found++ and addFunctionLocked.
StagedFnAdd(k) ==
    /\ StagedAtDefs(k, "fn")
    /\ \E id \in StagedTop(k).todo :
        /\ stagedAddFunction(k, id)
        /\ staged' = StagedWithTop(k, [StagedTop(k) EXCEPT !.todo = @ \ {id},
                                                           !.found = @ + 1])
    /\ UNCHANGED <<parserVars, engineVars, lockVars, built, parsed, checked, files, interfaceDecl,
                   addCall, fset, parses, checks>>

\* The loop over Defs is over: nothing found is an error, and a nested call
\* that found some returns to the loop over the embedded interfaces.
StagedReturn(k) ==
    /\ StagedAt(k, "scan")
    /\ StagedTop(k).cur = NoId
    /\ StagedTop(k).todo = {}
    /\ LET f == StagedTop(k)
           n == Len(staged[k].stack)
       IN  IF f.found = 0
           THEN staged' = StagedFail(k, ErrNoneFound(staged[k].kind, f.path, f.re))
           ELSE IF n = 1
           THEN staged' = [staged EXCEPT ![k] = [@ EXCEPT !.stack = <<>>,
                                                         !.fin = TRUE]]
           ELSE staged' = [staged EXCEPT ![k].stack =
                    Append(SubSeq(@, 1, n - 2),
                           [@[n - 1] EXCEPT !.embIdx = @ + 1])]
    /\ UNCHANGED <<parserVars, engineVars, lockVars, built, parsed, checked, files, interfaceDecl,
                   fnDecl, addCall, fset, dirtyFiles, parses, checks>>

StagedIfcCalls ==
    {<<PD \o <<".", "A">>, PD \o <<".", "B">>>>,
     <<PE \o <<".", "E", "$">>, PP \o <<".", "P", "$">>>>,
     <<PD \o <<".", "A">>, PD \o <<".", "(">>>>,
     <<PM>>, <<PW>>}
StagedFnCalls ==
    {<<PD \o <<".", "F", "1">>, PD \o <<".", "F", "2">>>>, <<PD>>, <<PN>>}

StagedIds == (1..MaxAddCalls) \X (1..2)

NextStaged ==
    \/ StagedAddInterfaces(StagedIfcCalls)
    \/ StagedAddFunctions(StagedFnCalls)
    \/ StagedWait
    \/ \E k \in StagedIds :
        \/ StagedDone(k)
        \/ BuildLookup(k)
        \/ BuildImport(k)
        \/ ParsedLookup(k)
        \/ ParseDir(k)
        \/ CheckedLookup(k)
        \/ TypeCheck(k)
        \/ StagedIfcAdd(k)
        \/ StagedIfcEnter(k)
        \/ StagedEmbedded(k)
        \/ StagedEmbeddedAdd(k)
        \/ StagedSelfAdd(k)
        \/ StagedFnAdd(k)
        \/ StagedReturn(k)

\* New of this engine takes no options.
InitStaged == Init /\ options = [concurrency |-> 0, ignoreMissing |-> FALSE]

SpecStaged == InitStaged /\ [][NextStaged]_vars

(***************************************************************************)
(* Properties.                                                             *)
(***************************************************************************)
\* Do has returned nil and nothing it started is left.
DoneOk ==
    /\ doPc = "idle"
    /\ doNo >= 1
    /\ doRet = {}
    /\ ~panicked
    /\ tasks = EmptyMap

\* The exported methods with a concrete receiver of the packages the last
\* Do scanned.
ScannedMethods ==
    {id \in Ids :
        /\ \E i \in DOMAIN doArgs.pkgs : doArgs.pkgs[i] = World[id].pkg
        /\ World[id].kind = "func"
        /\ IsExported(World[id].name)
        /\ World[id].recv # NoId
        /\ World[World[id].recv].under # "interface"}

\* The resolved interfaces whose whole method set the receiver of id has.
Satisfied(id) ==
    {fqn \in DOMAIN interfaces :
        IfcMethodSet(interfaces[fqn].ifc)
            \subseteq MethodSet(World[id].recv, World[id].ptr)}

\* C1: once Do has returned without error, every exported method with a
\* concrete receiver of a scanned package is recorded with exactly the
\* resolved interfaces whose method set, embedded interfaces included, is
\* within the method set of its receiver, and is not recorded when there
\* is no such interface.
C1_ImplementsExactly ==
    DoneOk =>
        \A id \in ScannedMethods :
            IF Satisfied(id) = {}
            THEN FullName(id) \notin DOMAIN functions
            ELSE /\ FullName(id) \in DOMAIN functions
                 /\ DOMAIN functions[FullName(id)].implements = Satisfied(id)

\* The example of C1: A{M1,M2}, B{M3} and C{A;B} are resolved; the methods
\* of T1{M1,M2} carry A only, those of T12{M1,M2,M3} carry A, B and C.
C1_Example ==
    /\ DoneOk
    /\ DOMAIN interfaces =
          {Fqn(PD, <<"A">>), Fqn(PD, <<"B">>), Fqn(PD, <<"C">>)}
    /\ \A id \in {"i.T1.M1", "i.T1.M2"} :
          /\ FullName(id) \in DOMAIN functions
          /\ DOMAIN functions[FullName(id)].implements = {Fqn(PD, <<"A">>)}
    /\ \A id \in {"i.T12.M1", "i.T12.M2", "i.T12.M3"} :
          /\ FullName(id) \in DOMAIN functions
          /\ DOMAIN functions[FullName(id)].implements = DOMAIN interfaces

\* a is at or before b in the order of source positions.
AtOrBefore(a, b) ==
    \/ StrLess(a.file, b.file)
    \/ a.file = b.file /\ a.off <= b.off

C3_WalkTwiceIdentical ==
    DoneOk =>
        \A i, j \in DOMAIN walked :
            (walked[i].kind = walked[j].kind /\ walked[i].src = walked[j].src)
                => walked[i].out = walked[j].out

\* Two walks of the comments of one comment group that two expressions
\* match.
C3_TwoWalksOfATie ==
    /\ DoneOk
    /\ Len(walked) = 2
    /\ walked[1].kind = "comments"
    /\ walked[2].kind = "comments"
    /\ walked[1].src = walked[2].src
    /\ \E a, b \in walked[1].src :
          a # b /\ a.file = b.file /\ a.off = b.off

\* C5: a path that has been loaded is not parsed and type checked again
\* by anything later on the same engine, a second Do that names it
\* included.
C5_LoadedOnce == \A p \in DOMAIN nLoads : nLoads[p] <= 1

\* C8: when Do has returned, with or without an error, none of the tasks
\* it started is still running.
C8_NoTaskAfterReturn == doPc = "idle" => tasks = EmptyMap

\* The specs of the last Do whose expression does not compile.
BadSpecs ==
    {spec \in SeqToSet(doArgs.ifcs) \cup SeqToSet(doArgs.fns) :
        ~RegexpCompiles(parseSpecAndRegexp(spec).expr)}

DoReturned == doPc = "idle" /\ doNo >= 1 /\ ~panicked

\* C9: a spec whose expression does not compile makes Do fail with the
\* error "failed to compile regexp" that carries the expression, before
\* anything is loaded.
C9_BadPatternFailsBeforeLoad ==
    (DoReturned /\ BadSpecs # {}) =>
        /\ \E spec \in BadSpecs :
              ErrRegexp(parseSpecAndRegexp(spec).expr) \in doRet
        /\ doLoaded = {}

\* The interface and function specs of the last Do that are well formed
\* and match no exported interface, or no exported function, of their
\* package.
ZeroMatch ==
    {spec \in SeqToSet(doArgs.ifcs) :
        /\ getPathAndRegexp(spec).err = NoError
        /\ \A id \in Defs(getPathAndRegexp(spec).path) :
              ~(/\ World[id].kind = "type"
                /\ World[id].under = "interface"
                /\ IsExported(World[id].name)
                /\ MatchString(getPathAndRegexp(spec).re, World[id].name))}
    \cup
    {spec \in SeqToSet(doArgs.fns) :
        /\ getPathAndRegexp(spec).err = NoError
        /\ \A id \in Defs(getPathAndRegexp(spec).path) :
              ~(/\ World[id].kind = "func"
                /\ World[id].recv = NoId
                /\ IsExported(World[id].name)
                /\ MatchString(getPathAndRegexp(spec).re, World[id].name))}

\* C10: with the default options, a Do with an interface spec or a function
\* spec that matches nothing exported in its package returns an error.
C10_NoMatchFails ==
    (DoReturned /\ ~options.ignoreMissing /\ ZeroMatch # {}) => doRet # {}

\* Do has returned the error of a spec that matched nothing.
C10_NoMatchReported ==
    /\ DoReturned
    /\ ~options.ignoreMissing
    /\ ZeroMatch # {}
    /\ \E e \in doRet :
          e.kind \in {"failed to find any exported interfaces",
                      "failed to find any exported functions"}

(***************************************************************************)
(* The locks.  Every goroutine is the sequence of the lock operations and  *)
(* of the unlocked work (a load, the entry of a nested call) that its code *)
(* performs, in order; sync.Mutex is not reentrant, so a goroutine that    *)
(* locks a mutex it holds waits for ever.                                  *)
(***************************************************************************)
Lock(l) == [op |-> "lock", arg |-> l]
Unlock(l) == [op |-> "unlock", arg |-> l]
Work(w) == [op |-> "work", arg |-> w]
Go(n) == [op |-> "go", arg |-> n]
Wait == [op |-> "wait", arg |-> ""]

RECURSIVE Repeat(_, _)
Repeat(ops, n) == IF n = 0 THEN <<>> ELSE ops \o Repeat(ops, n - 1)

\* loader.lookupPackage, loader.lookupFile and loader.position.
lookupPackageOps == <<Lock("ld"), Unlock("ld")>>
lookupFileOps == <<Lock("ld"), Unlock("ld")>>
positionOps == lookupPackageOps

\* loader.loadPaths: packages.Load, then the insert under the loader's lock.
loadPathsOps == <<Work("load"), Lock("ld"), Unlock("ld")>>

\* addInterface: the engine's lock, and under it position and lookupFile.
addInterfaceOps ==
    <<Lock("mu")>> \o positionOps \o lookupFileOps \o <<Unlock("mu")>>

\* A registration of a function that takes the engine's lock itself.
addFunctionRelockingOps ==
    <<Lock("mu")>> \o positionOps \o lookupFileOps \o <<Unlock("mu")>>

\* addFunctionLocked: position and lookupFile; the caller holds the
\* engine's lock.
addFunctionLockedOps == positionOps \o lookupFileOps

\* addFunction: the engine's lock around addFunctionLocked.
addFunctionOps == <<Lock("mu")>> \o addFunctionLockedOps \o <<Unlock("mu")>>

\* addComment: the engine's lock.
addCommentOps == <<Lock("mu"), Unlock("mu")>>

\* loader.walkFiles: the files are copied under the loader's lock, the
\* callbacks run after it is released.
walkFilesOps == <<Lock("ld"), Unlock("ld")>>

\* findInterfacesInPackage: lookupPackage, then for every definition found
\* the nested calls for its embedded interfaces of other packages, an
\* addInterface for each definition under an embedded name, and its own.
RECURSIVE findInterfacesInPackageOps(_, _), IfcDefsOps(_, _), IfcEmbedsOps(_, _)
findInterfacesInPackageOps(path, re) ==
    lookupPackageOps \o IfcDefsOps(path, Candidates("ifc", path, re))
IfcDefsOps(path, ids) ==
    IF ids = {} THEN <<>>
    ELSE LET id == CHOOSE x \in ids : TRUE
             embeds == World[id].embeds
             names == {World[embeds[i]].name :
                         i \in {j \in DOMAIN embeds : World[embeds[j]].pkg = path}}
         IN  (IF embeds = <<>> THEN <<>>
              ELSE IfcEmbedsOps(path, embeds)
                     \o Repeat(addInterfaceOps,
                               Cardinality(EmbeddedCandidates(path, names))))
             \o addInterfaceOps
             \o IfcDefsOps(path, ids \ {id})
IfcEmbedsOps(path, embeds) ==
    IF embeds = <<>> THEN <<>>
    ELSE (IF World[embeds[1]].pkg = path THEN <<>>
          ELSE <<Work("recurse")>>
                 \o findInterfacesInPackageOps(World[embeds[1]].pkg,
                                               World[embeds[1]].name \o <<"$">>))
         \o IfcEmbedsOps(path, Tail(embeds))

\* findFunctionsInPackage: lookupPackage, then addFunction for every
\* function found.
findFunctionsInPackageOps(path, re) ==
    lookupPackageOps
        \o Repeat(addFunctionOps, Cardinality(Candidates("fn", path, re)))

\* findImplementationInPackage: lookupPackage, then for every concrete
\* method the engine's lock around an addFunctionLocked for each of the
\* interfaces ifcs that its receiver implements.
RECURSIVE ImplMethodsOps(_, _)
ImplMethodsOps(ids, ifcs) ==
    IF ids = {} THEN <<>>
    ELSE LET id == CHOOSE x \in ids : TRUE
             n == Cardinality({i \in ifcs :
                                Implements(World[id].recv, World[id].ptr, i)})
         IN  <<Lock("mu")>> \o Repeat(addFunctionLockedOps, n)
                \o <<Unlock("mu")>> \o ImplMethodsOps(ids \ {id}, ifcs)
findImplementationInPackageOps(path, ifcs) ==
    lookupPackageOps \o ImplMethodsOps(Candidates("impl", path, <<>>), ifcs)

\* findComments: walkFiles, then addComment for every match of an
\* expression against a comment group of the files fs.
findCommentsOps(exprs, fs) ==
    walkFilesOps
        \o Repeat(addCommentOps,
                  Cardinality({x \in UNION {{<<f, cg, i>> :
                                               cg \in CommentGroups(f),
                                               i \in 1..Len(exprs)} : f \in fs} :
                                 MatchString(exprs[x[3]], x[2].text)}))

\* build, buildAndParse and buildParseAndCheck for a path in no cache: each
\* reads its cache under the engine's lock, works without it and inserts
\* under it.
buildOps ==
    <<Lock("mu"), Unlock("mu"), Work("load"), Lock("mu"), Unlock("mu")>>
buildAndParseOps ==
    buildOps
        \o <<Lock("mu"), Unlock("mu"), Work("load"), Lock("mu"), Unlock("mu")>>
buildParseAndCheckOps ==
    buildAndParseOps
        \o <<Lock("mu"), Unlock("mu"), Work("load"), Lock("mu"), Unlock("mu")>>

addInterfaceLockedOps == <<Lock("mu"), Unlock("mu")>>

\* findInterfaces of the engine with the staged cache: buildParseAndCheck,
\* then as findInterfacesInPackage, with addInterfaceLocked.
RECURSIVE findInterfacesOps(_, _), StagedDefsOps(_, _), StagedEmbedsOps(_, _)
findInterfacesOps(path, re) ==
    buildParseAndCheckOps \o StagedDefsOps(path, StagedCandidates("ifc", path, re))
StagedDefsOps(path, ids) ==
    IF ids = {} THEN <<>>
    ELSE LET id == CHOOSE x \in ids : TRUE
             embeds == StagedEmbeds(id)
             names == {World[embeds[i]].name :
                         i \in {j \in DOMAIN embeds : World[embeds[j]].pkg = path}}
             under == {ek \in Defs(path) : /\ World[ek].name \in names
                                           /\ isInterface(ObjType(ek)) # NoId}
         IN  (IF embeds = <<>> THEN <<>>
              ELSE StagedEmbedsOps(path, embeds)
                     \o Repeat(addInterfaceLockedOps, Cardinality(under)))
             \o addInterfaceLockedOps
             \o StagedDefsOps(path, ids \ {id})
StagedEmbedsOps(path, embeds) ==
    IF embeds = <<>> THEN <<>>
    ELSE (IF World[embeds[1]].pkg = path THEN <<>>
          ELSE <<Work("recurse")>>
                 \o findInterfacesOps(World[embeds[1]].pkg,
                                      World[embeds[1]].name \o <<"$">>))
         \o StagedEmbedsOps(path, Tail(embeds))

\* Do: loadPaths, the goroutines of findInterfaces and their Wait, then the
\* goroutines that locate functions, implementations and comments and
\* their Wait.
DoOps == loadPathsOps \o <<Go("ifc"), Wait, Go("scan"), Wait>>

\* AddInterfaces of the engine with the staged cache.
AddInterfacesOps == <<Go("add"), Wait>>

NoG == ""

\* The goroutines a group starts: two of every group need the package t/p.
LockGroup(n) ==
    CASE n = "ifc" ->
            [g \in {"ifc1", "ifc2", "ifc3"} |->
                CASE g = "ifc1" -> findInterfacesInPackageOps(PE, <<"E", "$">>)
                  [] g = "ifc2" -> findInterfacesInPackageOps(PP, MatchAll)
                  [] OTHER -> findInterfacesInPackageOps(PD, <<"A">>)]
      [] n = "scan" ->
            [g \in {"fn1", "impl1", "cmt1"} |->
                CASE g = "fn1" -> findFunctionsInPackageOps(PD, MatchAll)
                  [] g = "impl1" -> findImplementationInPackageOps(PI, {"d.A"})
                  [] OTHER -> findCommentsOps(<<<<"x">>, <<"g">>>>, {FD1, FE1})]
      [] OTHER ->
            [g \in {"add1", "add2"} |->
                IF g = "add1" THEN findInterfacesOps(PE, <<"E", "$">>)
                ELSE findInterfacesOps(PP, <<"P", "$">>)]

LockIds == {"main", "ifc1", "ifc2", "ifc3", "fn1", "impl1", "cmt1", "add1", "add2"}

Held(g) == {l \in DOMAIN locks : locks[l] = g}

\* The caller starts Do, or AddInterfaces of the engine with the staged
\* cache.
LockStart ==
    /\ running = EmptyMap
    /\ \E ops \in {DoOps, AddInterfacesOps} : running' = [g \in {"main"} |-> ops]
    /\ UNCHANGED <<parserVars, engineVars, stagedVars, locks>>

\* The goroutine g is at an operation op.
LockAt(g, op) ==
    /\ g \in DOMAIN running
    /\ running[g] # <<>>
    /\ Head(running[g]).op = op

LockRest(g) == [running EXCEPT ![g] = Tail(@)]

\* Mutex.Lock returns once the mutex is free.
LockAcquire(g) ==
    /\ LockAt(g, "lock")
    /\ locks[Head(running[g]).arg] = NoG
    /\ locks' = [locks EXCEPT ![Head(running[g]).arg] = g]
    /\ running' = LockRest(g)
    /\ UNCHANGED <<parserVars, engineVars, stagedVars>>

\* Mutex.Unlock.
LockRelease(g) ==
    /\ LockAt(g, "unlock")
    /\ locks' = [locks EXCEPT ![Head(running[g]).arg] = NoG]
    /\ running' = LockRest(g)
    /\ UNCHANGED <<parserVars, engineVars, stagedVars>>

\* A load, or the entry of a nested call.
LockWork(g) ==
    /\ LockAt(g, "work")
    /\ running' = LockRest(g)
    /\ UNCHANGED <<parserVars, engineVars, stagedVars, locks>>

\* group.Go for every goroutine of a group.
LockGo(g) ==
    /\ LockAt(g, "go")
    /\ LET new == LockGroup(Head(running[g]).arg)
       IN  running' = [x \in DOMAIN running \cup DOMAIN new |->
                          IF x \in DOMAIN new THEN new[x] ELSE LockRest(g)[x]]
    /\ UNCHANGED <<parserVars, engineVars, stagedVars, locks>>

\* group.Wait returns when every goroutine of the group has.
LockWait(g) ==
    /\ LockAt(g, "wait")
    /\ \A x \in DOMAIN running \ {g} : running[x] = <<>>
    /\ running' = LockRest(g)
    /\ UNCHANGED <<parserVars, engineVars, stagedVars, locks>>

LockStep(g) ==
    \/ LockAcquire(g)
    \/ LockRelease(g)
    \/ LockWork(g)
    \/ LockGo(g)
    \/ LockWait(g)

NextLocks == LockStart \/ \E g \in LockIds : LockStep(g)

\* The goroutines of a group all run at once: the engine is built without
\* a limit on its concurrency.
InitLocks == Init /\ options = [concurrency |-> 0, ignoreMissing |-> FALSE]

SpecLocks == InitLocks /\ [][NextLocks]_vars

\* While some goroutine can run, one is run; no goroutine loops, so no
\* more is needed for each of them to get its turn.
SpecLocksFair == SpecLocks /\ WF_vars(NextLocks)

\* A goroutine holds no lock when it loads or enters a nested call, locks
\* no mutex it holds, and does not lock the engine's mutex while it holds
\* the loader's.
LockDiscipline ==
    \A g \in DOMAIN running :
        running[g] # <<>> =>
            LET o == Head(running[g])
            IN  /\ o.op = "work" => Held(g) = {}
                /\ o.op = "lock" => o.arg \notin Held(g)
                /\ (o.op = "lock" /\ o.arg = "mu") => "ld" \notin Held(g)

\* The caller and every goroutine it started have run to their end.
LockFinished ==
    /\ running # EmptyMap
    /\ \A g \in DOMAIN running : running[g] = <<>>

\* C7: no interleaving of the goroutines deadlocks: a goroutine holds no
\* lock when it loads or enters a nested call, locks no mutex it holds,
\* and takes the engine's mutex before the loader's, never after it; and
\* every goroutine that starts finishes.
C7_NoDeadlock ==
    /\ []LockDiscipline
    /\ (running # EmptyMap) ~> LockFinished

\* A goroutine holds the engine's lock and the loader's while another
\* waits for the engine's lock and a third for the loader's.
C7_Contended ==
    \E g1, g2, g3 \in DOMAIN running :
        /\ Held(g1) = {"mu", "ld"}
        /\ LockAt(g2, "lock") /\ Head(running[g2]).arg = "mu"
        /\ LockAt(g3, "lock") /\ Head(running[g3]).arg = "ld"

\* C4: of the goroutines that ask for the same path while it is in no
\* cache, at most one parses and type-checks it: no path that loads is
\* parsed twice or type-checked twice.
C4_AtMostOneLoad ==
    /\ \A p \in DOMAIN parses \cap GoodPaths : parses[p] <= 1
    /\ \A p \in DOMAIN checks \cap GoodPaths : checks[p] <= 1

\* Two goroutines of one call are about to type-check the same path.
C4_TwoAtTypeCheck ==
    \E k1, k2 \in DOMAIN staged :
        /\ k1 # k2
        /\ k1[1] = k2[1]
        /\ StagedAt(k1, "check")
        /\ StagedAt(k2, "check")
        /\ StagedTop(k1).path = StagedTop(k2).path
        /\ StagedTop(k1).path \in GoodPaths

\* C6: after a duplicate load of a path the caches are as after a single
\* one: every function and interface registered has its declaration, and
\* the declaration is of the parse that the types.Info it was found in is of.
C6_DeclOfSameLoad ==
    /\ \A n \in DOMAIN fnDecl :
        /\ fnDecl[n].decl = fnDecl[n].fn
        /\ fnDecl[n].declAst = fnDecl[n].info
    /\ \A n \in DOMAIN interfaceDecl :
        interfaceDecl[n].decl # NoId =>
            interfaceDecl[n].declAst = interfaceDecl[n].info

\* A function was registered after its package had been parsed twice.
C6_RegisteredAfterDuplicate ==
    \E n \in DOMAIN fnDecl :
        /\ World[fnDecl[n].fn].pkg \in DOMAIN parses
        /\ parses[World[fnDecl[n].fn].pkg] = 2

\* The interface specs of the last Do that are well formed and match no
\* exported interface of their package.
ZeroMatchIfc == ZeroMatch \cap SeqToSet(doArgs.ifcs)

\* The names one call of findInterfacesInPackage registers: the matches,
\* the interfaces of the package found under the names they embed, and
\* what the calls for the interfaces they embed from other packages
\* register.
RECURSIVE Resolved(_, _)
Resolved(path, re) ==
    UNION {{Fqn(path, World[id].name)}
           \cup {Fqn(path, World[ek].name) :
                    ek \in EmbeddedCandidates(path,
                              {World[e].name : e \in
                                  {x \in SeqToSet(World[id].embeds) :
                                      World[x].pkg = path}})}
           \cup UNION {Resolved(World[e].pkg, World[e].name \o <<"$">>) :
                          e \in {x \in SeqToSet(World[id].embeds) :
                                    World[x].pkg # path}}
           : id \in Candidates("ifc", path, re)}

\* C11: on an engine made to ignore missing names, a Do with an interface
\* spec that matches nothing in its package returns no error for it, the
\* spec adds no interface, and every interface the other specs of that Do
\* match is resolved.
C11_IgnoreMissingSucceeds ==
    (options.ignoreMissing /\ ZeroMatchIfc # {}) =>
        /\ DoReturned =>
              \A e \in doRet :
                  e.kind \notin {"failed to find any exported interfaces",
                                 "failed to find any exported functions"}
        /\ DoneOk =>
              DOMAIN interfaces =
                  UNION {Resolved(getPathAndRegexp(spec).path,
                                  getPathAndRegexp(spec).re) :
                            spec \in SeqToSet(doArgs.ifcs) \ ZeroMatchIfc}

\* Do has returned nil for a spec that matches nothing and a spec that
\* matches the three interfaces of its package.
C11_MissingIgnored ==
    /\ DoneOk
    /\ options.ignoreMissing
    /\ ZeroMatchIfc # {}
    /\ SeqToSet(doArgs.ifcs) \ ZeroMatchIfc # {}
    /\ Cardinality(DOMAIN interfaces) = 3

\* The interfaces a spec of the last Do matches.
MatchedInterfaces ==
    UNION {Candidates("ifc", getPathAndRegexp(spec).path,
                      getPathAndRegexp(spec).re) :
              spec \in {s \in SeqToSet(doArgs.ifcs) :
                           getPathAndRegexp(s).err = NoError}}

\* C12: after a Do that returned nil, every interface a spec matches is
\* registered, and so is every exported interface of its own package and
\* every interface of another package that it embeds directly.
C12_EmbeddedRegistered ==
    DoneOk =>
        \A id \in MatchedInterfaces :
            /\ Fqn(World[id].pkg, World[id].name) \in DOMAIN interfaces
            /\ \A i \in DOMAIN World[id].embeds :
                  LET e == World[id].embeds[i]
                  IN  (World[e].pkg # World[id].pkg \/ IsExported(World[e].name))
                          => Fqn(World[e].pkg, World[e].name)
                                \in DOMAIN interfaces

\* The spec t/e.E$ is resolved and the interfaces are walked: E, the E1 of
\* its package and the P of t/p that it embeds are entries of the walk.
C12_EmbeddingWalked ==
    /\ DoneOk
    /\ "e.E" \in MatchedInterfaces
    /\ \E i \in DOMAIN walked :
          /\ walked[i].kind = "interfaces"
          /\ {Fqn(PE, <<"E">>), Fqn(PE, <<"E", "1">>), Fqn(PP, <<"P">>)}
                \subseteq {walked[i].out[j].name : j \in DOMAIN walked[i].out}

\* The name of the entry k of the interface collection: what follows the
\* path and the dot in its key.
InterfaceName(k) == SubSeq(k, Len(interfaces[k].path) + 2, Len(k))

\* C13: no entry of the interface collection, and so no entry a walk of
\* the interfaces hands out, has a name that is not exported.
C13_OnlyExportedRegistered ==
    /\ \A k \in DOMAIN interfaces : IsExported(InterfaceName(k))
    /\ \A i \in DOMAIN walked :
          walked[i].kind = "interfaces" =>
              \A j \in DOMAIN walked[i].out :
                  \E k \in DOMAIN interfaces :
                      /\ k = walked[i].out[j].name
                      /\ IsExported(InterfaceName(k))

\* The spec t/e.E$ is resolved: the interface e3 that E embeds is an entry
\* of the interface collection and of a walk.
C13_UnexportedWalked ==
    /\ DoneOk
    /\ "e.E" \in MatchedInterfaces
    /\ Fqn(PE, <<"e", "3">>) \in DOMAIN interfaces
    /\ \E i \in DOMAIN walked :
          /\ walked[i].kind = "interfaces"
          /\ \E j \in DOMAIN walked[i].out :
                walked[i].out[j].name = Fqn(PE, <<"e", "3">>)

\* C14: the implemented interfaces a function is recorded with hold no
\* interface name twice, whatever was called before, a second Do with the
\* same registrations included.
C14_ImplementsNoDuplicate ==
    \A f \in DOMAIN functions :
        \A x \in DOMAIN functions[f].implements :
            functions[f].implements[x] <= 1

\* A second Do with the registrations of the first has returned nil with
\* methods recorded as implementations.
C14_SecondDoRecorded ==
    /\ DoneOk
    /\ doNo = 2
    /\ \E f \in DOMAIN functions : DOMAIN functions[f].implements # {}

\* The errors the tasks of the running Do have ended in so far: those the
\* groups have recorded and those of the tasks that have finished.
TaskErrors ==
    UNION {groups[g].errs : g \in GroupIds}
        \cup UNION {tasks[k].ret : k \in DOMAIN tasks}

\* C15: the error Do returns holds the error of every task of that Do that
\* has failed, not only one of them.
C15_ReturnsEveryError ==
    [][(doPc # "idle" /\ doPc' = "idle") => TaskErrors \subseteq doRet']_vars

\* Do has returned an error, and a task it started has failed with an
\* error that is not in it.
C15_ErrorLost ==
    /\ doPc = "idle"
    /\ doNo >= 1
    /\ doRet # {}
    /\ \E k \in DOMAIN tasks :
          tasks[k].ret # {} /\ ~(tasks[k].ret \subseteq doRet)

\* The specs of q that are well formed and match something of a package
\* the loader holds.
MatchingSpecs(kind, q) ==
    {spec \in SeqToSet(q) :
        /\ getPathAndRegexp(spec).err = NoError
        /\ getPathAndRegexp(spec).path \in DOMAIN ldPackages
        /\ Candidates(kind, getPathAndRegexp(spec).path,
                      getPathAndRegexp(spec).re) # {}}

\* C16: when Do has returned the error of a spec that failed, with no
\* cancellation, the interfaces and the functions matched by the other
\* specs, those that are well formed and match something of a loaded
\* package, are in the collections the walks hand out.
C16_OtherSpecsResolved ==
    (DoReturned /\ doRet # {} /\ ErrCanceled \notin doRet /\ tasks = EmptyMap) =>
        /\ \A spec \in MatchingSpecs("ifc", doArgs.ifcs) :
              \A id \in Candidates("ifc", getPathAndRegexp(spec).path,
                                   getPathAndRegexp(spec).re) :
                  Fqn(World[id].pkg, World[id].name) \in DOMAIN interfaces
        /\ \A spec \in MatchingSpecs("fn", doArgs.fns) :
              \A id \in Candidates("fn", getPathAndRegexp(spec).path,
                                   getPathAndRegexp(spec).re) :
                  FullName(id) \in DOMAIN functions

\* Do has returned the error of an interface spec that matched nothing,
\* and the functions that a function spec of that Do matches are not
\* recorded.
C16_FunctionsMissing ==
    /\ DoReturned
    /\ tasks = EmptyMap
    /\ \E e \in doRet : e.kind = "failed to find any exported interfaces"
    /\ MatchingSpecs("fn", doArgs.fns) # {}
    /\ functions = EmptyMap

\* C17: a Do whose context is cancelled before it is called loads nothing,
\* and a Do whose context is cancelled before it returns returns the
\* context's error.
C17_CancelEndsDo ==
    [][/\ (doPc = "idle" /\ doPc' # "idle" /\ ctxCancelled') => doLoaded' = {}
       /\ (doPc # "idle" /\ ctxCancelled /\ doPc' = "idle")
              => ErrCanceled \in doRet']_vars

\* A cancelled Do has returned the context's error after one of two
\* interface specs was resolved, and a walk hands out the interfaces of
\* that spec alone.
C17_PartialWalked ==
    /\ DoReturned
    /\ ErrCanceled \in doRet
    /\ tasks = EmptyMap
    /\ \E spec \in MatchingSpecs("ifc", doArgs.ifcs) :
          \E id \in Candidates("ifc", getPathAndRegexp(spec).path,
                               getPathAndRegexp(spec).re) :
              Fqn(World[id].pkg, World[id].name) \notin DOMAIN interfaces
    /\ \E i \in DOMAIN walked :
          walked[i].kind = "interfaces" /\ walked[i].out # <<>>

\* The tasks of the running Do that are started and not finished: the
\* calls for an interface spec, a function spec or a package, and the scan
\* of the comments.
RunningTasks ==
    Cardinality({k \in DOMAIN tasks : ~tasks[k].fin /\ ~tasks[k].orphan})
        + (IF coord["cmt"].pc # "off" THEN 1 ELSE 0)

\* C18: on an engine made with a concurrency of N > 0, no more than N
\* tasks of a Do are running at any time.
C18_AtMostNRunning ==
    (options.concurrency > 0 /\ doPc # "idle")
        => RunningTasks <= options.concurrency

\* With a concurrency of 1, a call for a function spec and the scan of a
\* package are running at once.
C18_TwoGroupsRunning ==
    /\ options.concurrency = 1
    /\ doPc # "idle"
    /\ \E j, k \in DOMAIN tasks :
          /\ tasks[j].kind = "fn" /\ ~tasks[j].fin /\ ~tasks[j].orphan
          /\ tasks[k].kind = "impl" /\ ~tasks[k].fin /\ ~tasks[k].orphan

\* The goroutines that have returned from a call for a spec of path.
ReturnedFor(path) ==
    {k \in DOMAIN staged : staged[k].fin /\ staged[k].path = path}

MaxSpecLen == 6

SpecChars == {"a", "b", ".", "/"}
SpecStrings == UNION {[1..n -> SpecChars] : n \in 0..MaxSpecLen}

\* The call of parseSpecAndRegexp(typ).
ParseSpec ==
    /\ parseRet = NoParse
    /\ parseRet' = parseSpecAndRegexp(parseTyp)
    /\ UNCHANGED <<parseTyp, engineVars, stagedVars, lockVars>>

NextParse == ParseSpec

InitParse ==
    /\ InitEngine
    /\ options = [concurrency |-> 0, ignoreMissing |-> FALSE]
    /\ parseTyp \in SpecStrings
    /\ parseRet = NoParse

SpecParse == InitParse /\ [][NextParse]_vars

\* What precedes the last slash of typ, and what follows it; the whole of
\* typ follows when it has no slash.
DirOf(typ) ==
    IF LastIndex(typ, "/") < 0 THEN <<>> ELSE Prefix(typ, LastIndex(typ, "/"))
TailOf(typ) == Suffix(typ, LastIndex(typ, "/") + 1)

\* C20: the parser splits a spec at its last slash and what follows at its
\* first dot: the expression is all that follows that dot, later dots
\* included, and the path is what precedes it, joined and cleaned as
\* path.Join does; without a dot after the last slash the expression is
\* ".*" and the path is the whole spec, joined and cleaned.
C20_SplitsAtFirstDot ==
    parseRet # NoParse =>
        IF "." \notin Range(TailOf(parseTyp))
        THEN /\ parseRet.expr = MatchAll
             /\ parseRet.path = PathJoin(DirOf(parseTyp), TailOf(parseTyp))
        ELSE \E n \in 0..Len(TailOf(parseTyp)) :
                /\ "." \notin Range(Prefix(TailOf(parseTyp), n))
                /\ TailOf(parseTyp)
                      = Prefix(TailOf(parseTyp), n) \o <<".">> \o parseRet.expr
                /\ parseRet.path
                      = PathJoin(DirOf(parseTyp), Prefix(TailOf(parseTyp), n))

\* C20 with the last dot in place of the first: the expression is what
\* follows the last dot after the last slash and the path is all that
\* precedes it.
C20_SplitsAtLastDot ==
    parseRet # NoParse => parseRet = parseSpecAtLastDot(parseTyp)

\* The parser has returned for b/a.b., a spec with two dots after its last
\* slash: the path is b/a and the expression is "b.".
C20_TwoDots ==
    /\ parseTyp = <<"b", "/", "a", ".", "b", ".">>
    /\ parseRet = [path |-> <<"b", "/", "a">>, expr |-> <<"b", ".">>]

\* C23: while a scan of a package for implementations is running, no call
\* for an interface spec of that Do is, and the interface collection holds
\* all that the interface specs of that Do register.
C23_ScanAfterInterfaces ==
    \A k \in DOMAIN tasks :
        (tasks[k].kind = "impl" /\ ~tasks[k].orphan) =>
            /\ \A j \in DOMAIN tasks : tasks[j].kind = "ifc" => j[2] # k[2]
            /\ UNION {Resolved(getPathAndRegexp(spec).path,
                               getPathAndRegexp(spec).re) :
                         spec \in SeqToSet(doArgs.ifcs)}
                  \subseteq DOMAIN interfaces

\* The scan of t/i is running after the three interfaces of t/d were
\* resolved.
C23_ScanRunning ==
    /\ \E k \in DOMAIN tasks :
          tasks[k].kind = "impl" /\ ~tasks[k].fin /\ ~tasks[k].orphan
    /\ doArgs.ifcs # <<>>
    /\ Cardinality(DOMAIN interfaces) = 3

\* The names of the interfaces of the package path that an interface
\* matched by a spec of the last Do embeds.
EmbeddedNamesOf(path) ==
    {World[e].name :
        e \in {x \in UNION {SeqToSet(World[id].embeds) : id \in MatchedInterfaces} :
                  World[x].pkg = path}}

\* C25: after a Do that returned nil, the interfaces registered from a
\* package that no interface spec names are those whose name is the name
\* of an interface of that package that a matched interface embeds, and
\* no other.
C25_ForeignExactName ==
    DoneOk =>
        \A k \in DOMAIN interfaces :
            (\A spec \in SeqToSet(doArgs.ifcs) :
                getPathAndRegexp(spec).path # interfaces[k].path)
                => InterfaceName(k) \in EmbeddedNamesOf(interfaces[k].path)

\* The spec t/e.E$ is resolved, E embeds t/p.P, and the interface XP of
\* t/p is registered.
C25_SuffixRegistered ==
    /\ DoneOk
    /\ doArgs.ifcs = <<PE \o <<".", "E", "$">>>>
    /\ Fqn(PP, <<"P">>) \in DOMAIN interfaces
    /\ Fqn(PP, <<"X", "P">>) \in DOMAIN interfaces

\* C26: no Do fails on the lookup of a package for an interface: the
\* package of an embedded interface that no registration names is loaded
\* when the call for the embedding interface gets to it.
C26_ForeignLoadedOnDemand ==
    DoReturned =>
        \A e \in doRet : e.kind # "locating interfaces: failed to lookup"

\* Do has returned the lookup error for t/p, which the interface E of the
\* spec t/e.E$ embeds P from and which was not registered.
C26_ForeignNotLoaded ==
    /\ DoReturned
    /\ doArgs.ifcs = <<PE \o <<".", "E", "$">>>>
    /\ PP \notin doLoaded
    /\ doRet = {ErrLookup("ifc", PP)}
    /\ Fqn(PP, <<"P">>) \notin DOMAIN interfaces

\* C30: a call of loadPaths for paths of which one is not found or does
\* not type check leaves the loader's packages and files as they were, and
\* a call for paths that all load leaves every one of them, with each of
\* its files, in the loader.
C30_LoadAllOrNothing ==
    [][doNo' = doNo + 1 =>
        IF \E p \in doLoaded' : LoadOutcome(p) # "ok"
        THEN ldPackages' = ldPackages /\ ldFiles' = ldFiles
        ELSE \A p \in doLoaded' :
                /\ p \in DOMAIN ldPackages'
                /\ PkgFiles(p) \subseteq DOMAIN ldFiles']_vars

\* Do has returned the error of a load of t/d, which loads, with t/m and
\* n, which do not: the loader holds nothing.
C30_NothingInserted ==
    /\ DoReturned
    /\ doNo = 1
    /\ {PD, PM, PN} \subseteq doLoaded
    /\ ErrFind(PN) \in doRet
    /\ ErrTypeCheck(PM) \in doRet
    /\ ldPackages = EmptyMap
    /\ ldFiles = EmptyMap

\* The goroutines that return an error of that kind on this step.
FailsWith(kind) ==
    \E k \in DOMAIN staged \cap DOMAIN staged' :
        /\ staged[k].ret = {}
        /\ \E e \in staged'[k].ret : e.kind = kind

\* C29: every path of the type-checked cache is in the parsed cache and
\* every path of the parsed cache is in the located cache, in every state;
\* a load that fails to locate changes none of the three caches, one that
\* fails in the parse changes neither the parsed nor the type-checked
\* cache, and one that fails in the type check changes neither the
\* type-checked cache nor the files.
C29_CachesNested ==
    /\ [](DOMAIN checked \subseteq DOMAIN parsed /\ DOMAIN parsed \subseteq built)
    /\ [][/\ FailsWith("failed to import")
              => built' = built /\ parsed' = parsed /\ checked' = checked
          /\ FailsWith("contains more than one package")
              => parsed' = parsed /\ checked' = checked
          /\ FailsWith("failed to typecheck")
              => checked' = checked /\ files' = files]_vars

\* The directory t/m was located and parsed and its type check has
\* failed, while t/d went through all three stages.
C29_FailedAtCheck ==
    /\ PM \in DOMAIN parsed
    /\ PM \notin DOMAIN checked
    /\ PD \in DOMAIN checked
    /\ \E k \in DOMAIN staged : staged[k].ret = {ErrTypecheck(PM)}

\* C28: every entry of the interface collection is that of a type
\* declaration: it has a declaration, and its position is the position of
\* the type definition of its name in its package, not that of a variable
\* or a field.
C28_OnlyTypeDeclarations ==
    ~panicked =>
        \A k \in DOMAIN interfaces :
            /\ interfaces[k].decl # NoId
            /\ \E id \in Defs(interfaces[k].path) :
                  /\ World[id].kind = "type"
                  /\ World[id].name = InterfaceName(k)
                  /\ World[id].file = interfaces[k].file
                  /\ World[id].off = interfaces[k].off

\* The spec t/e.E$ is resolved: the entry t/e.E1 is at the position of the
\* field E1 of the struct SE.
C28_FieldRegistered ==
    /\ DoneOk
    /\ Fqn(PE, <<"E", "1">>) \in DOMAIN interfaces
    /\ interfaces[Fqn(PE, <<"E", "1">>)].off = World["e.SE.E1"].off


(***************************************************************************)
(* WalkFiles, and the engine run with specs that overlap.                  *)
(***************************************************************************)
\* A WalkFiles that calls fn for every loaded file, whatever its mask.
HitFilesAll(d) == DOMAIN ldFiles

\* The files WalkFiles calls fn for: the loader's files whose mask is not 0.
HitFiles(d) == {f \in DOMAIN ldFiles : MaskOf(d, f) # 0}

\* WalkFiles: the loader's files sorted by name, fn called with the mask of
\* each file that has one.
WalkFiles ==
    /\ CanWalk
    /\ LET names == SortNames(HitFiles(dirty))
       IN  walked' = Append(walked,
               [kind |-> "files", src |-> DOMAIN ldFiles,
                out |-> [i \in 1..Len(names) |->
                            [name |-> names[i],
                             mask |-> MaskOf(dirty, names[i])]]])
    /\ UNCHANGED <<parserVars, lockVars, stagedVars, options, regVars,
                   loaderVars, resultVars, doPc, doIdx, doNo, doArgs, doRet,
                   groups, coord, tasks, ctxCancelled, panicked, regCalls>>

MaxRegMore == 3

IfcCallsMore ==
    {<<PD>>,                                 \* t/d: every interface of t/d
     <<PD \o <<".", "A">>>>,                 \* t/d.A: A alone
     <<PE \o <<".", "T">>>>}                 \* t/e.T: T embeds E, E embeds E1
FnCallsMore ==
    {<<PD>>,                                 \* t/d: F1 and F2
     <<PD \o <<".", "F", "1">>>>}            \* t/d.F1: F1 alone
PkgCallsMore == {<<PC>>}
CommentCallsMore == {<<<<"x">>>>}

TaskIdsMore == GroupIds \X (1..MaxDo) \X (1..MaxRegMore)

NextMore ==
    \/ AddInterfaces(IfcCallsMore, MaxRegMore)
    \/ AddFunctions(FnCallsMore, MaxRegMore)
    \/ AddPackages(PkgCallsMore, MaxRegMore)
    \/ AddComments(CommentCallsMore, MaxRegMore)
    \/ DoCall(MaxDo, {FALSE})
    \/ \E g \in {"ifc", "fn", "impl"} : DispSpawn(g)
    \/ \E g \in {"ifc", "fn", "impl"} : DispWait(g)
    \/ TopDispatch
    \/ TopWait
    \/ \E k \in TaskIdsMore : TaskStart(k)
    \/ \E k \in TaskIdsMore : IfcAdd(k)
    \/ \E k \in TaskIdsMore : IfcEnter(k)
    \/ \E k \in TaskIdsMore : IfcEmbeddedAdd(k)
    \/ \E k \in TaskIdsMore : IfcSelfAdd(k)
    \/ \E k \in TaskIdsMore : FnAdd(k)
    \/ \E k \in TaskIdsMore : ImplVisit(k)
    \/ \E k \in TaskIdsMore : TaskDone(k)
    \/ CmtStart
    \/ CmtAdd
    \/ WalkInterfaces
    \/ WalkFunctions
    \/ WalkFiles

SpecMore == Init /\ [][NextMore]_vars


\* The exported interfaces of its own package that the interface id embeds.
LocalEmbedded(id) ==
    {y \in SeqToSet(World[id].embeds) :
        /\ World[y].pkg = World[id].pkg
        /\ IsExported(World[y].name)}

\* C24: after a Do that returned nil, for every interface X an interface
\* spec matches, every exported interface Y of the package that X embeds
\* and every exported interface Z of the package that Y embeds are entries
\* of the interface collection, as X is.
C24_EmbeddedTransitive ==
    DoneOk =>
        \A i \in 1..Len(doArgs.ifcs) :
            LET s == getPathAndRegexp(doArgs.ifcs[i])
            IN  \A x \in Candidates("ifc", s.path, s.re) :
                    /\ Fqn(s.path, World[x].name) \in DOMAIN interfaces
                    /\ \A y \in LocalEmbedded(x) :
                        /\ Fqn(s.path, World[y].name) \in DOMAIN interfaces
                        /\ \A z \in LocalEmbedded(y) :
                              Fqn(s.path, World[z].name) \in DOMAIN interfaces

\* The spec t/e.T alone is resolved: T and the E it embeds are entries, the
\* E1 that E embeds is not.
C24_ChainCut ==
    /\ DoneOk
    /\ doArgs.ifcs = <<PE \o <<".", "T">>>>
    /\ Fqn(PE, <<"T">>) \in DOMAIN interfaces
    /\ Fqn(PE, <<"E">>) \in DOMAIN interfaces
    /\ Fqn(PE, <<"E", "1">>) \notin DOMAIN interfaces


\* The exported methods with a body declared on the named type typ, with a
\* receiver typ or *typ.
ExportedMethods(typ) ==
    {m \in Ids : /\ World[m].kind = "func"
                 /\ World[m].recv = typ
                 /\ World[m].body
                 /\ IsExported(World[m].name)}

\* C27: after a Do that returned nil, when a method of a named concrete
\* type is recorded as implementing an interface, every exported method
\* declared on that type, with a value or a pointer receiver, is recorded
\* as implementing that interface too.
C27_SameInterfacesPerType ==
    DoneOk =>
        \A k \in DOMAIN functions :
            LET m == functions[k].fn
            IN  World[m].recv # NoId =>
                    \A c \in DOMAIN functions[k].implements :
                        \A m2 \in ExportedMethods(World[m].recv) :
                            /\ FullName(m2) \in DOMAIN functions
                            /\ c \in DOMAIN functions[FullName(m2)].implements

\* The interfaces of t/d are resolved and t/c is scanned: M2 of *S is
\* recorded as implementing t/d.A, M1 of S is not recorded.
C27_ValueMethodMissing ==
    /\ DoneOk
    /\ FullName("c.S.M2") \in DOMAIN functions
    /\ Fqn(PD, <<"A">>) \in DOMAIN functions[FullName("c.S.M2")].implements
    /\ FullName("c.S.M1") \notin DOMAIN functions


\* What the interface specs of q resolve to, each taken alone: the
\* interfaces it matches and those registered with them as embedded.
ResolvedBy(q) ==
    UNION {Resolved(getPathAndRegexp(s).path, getPathAndRegexp(s).re) :
              s \in SeqToSet(q)}

\* The free functions the function specs of q match.
MatchedFunctions(q) ==
    UNION {{FullName(id) :
               id \in Candidates("fn", getPathAndRegexp(s).path,
                                 getPathAndRegexp(s).re)} :
              s \in SeqToSet(q)}

ResultMask(f) ==
    (IF \E k \in DOMAIN interfaces : interfaces[k].file = f
     THEN HasInterface ELSE 0)
    + (IF \E k \in DOMAIN functions : functions[k].file = f
       THEN HasFunction ELSE 0)
    + (IF \E re \in DOMAIN comments : \E i \in 1..Len(comments[re]) :
              comments[re][i].filename = f
       THEN HasComment ELSE 0)

\* The files a result lies in, a mask is kept for, or the loader holds.
KnownFiles ==
    DOMAIN ldFiles \cup DOMAIN dirty
    \cup {interfaces[k].file : k \in DOMAIN interfaces}
    \cup {functions[k].file : k \in DOMAIN functions}
    \cup UNION {{comments[re][i].filename : i \in 1..Len(comments[re])} :
                   re \in DOMAIN comments}

\* C22: in every state of a process that has not panicked, the mask kept
\* for a file has the interface, function and comment bits set exactly for
\* the kinds of result whose position lies in that file; and a WalkFiles
\* visits, in ascending order of file name, exactly the loaded files in
\* which a result lies, each with that mask.
C22_MaskMatchesResults ==
    ~panicked =>
        /\ \A f \in KnownFiles : MaskOf(dirty, f) = ResultMask(f)
        /\ \A i \in 1..Len(walked) :
              walked[i].kind = "files" =>
                LET out == walked[i].out
                IN  /\ \A j \in 1..(Len(out) - 1) :
                          StrLess(out[j].name, out[j + 1].name)
                    /\ {out[j].name : j \in 1..Len(out)}
                          = {f \in DOMAIN ldFiles : ResultMask(f) # 0}
                    /\ \A j \in 1..Len(out) :
                          out[j].mask = ResultMask(out[j].name)

\* The interfaces and the functions of t/d and the comments that match x
\* are located and the files walked: d1 with the interface and the comment
\* bit, then d2 and d3 with the function bit.
C22_ThreeFilesWalked ==
    /\ DoneOk
    /\ \E i \in 1..Len(walked) :
          /\ walked[i].kind = "files"
          /\ Len(walked[i].out) = 3
          /\ walked[i].out[1] = [name |-> FD1, mask |-> HasInterface + HasComment]
          /\ walked[i].out[2] = [name |-> FD2, mask |-> HasFunction]
          /\ walked[i].out[3] = [name |-> FD3, mask |-> HasFunction]

====
